---------------------------- MODULE Spec2Model ----------------------------
(***************************************************************************)
(* A model of the Food Truck CLI: the process runner (utils/run_command),  *)
(* the dependency check (commands/check.py and commands/check/), the API   *)
(* service lifecycle (commands/api/), the project setup (commands/setup/   *)
(* and commands/setup.py) and the shell completion (commands/completion/). *)
(*                                                                         *)
(* Python text is a sequence of chunks: a captured stream is a sequence of *)
(* one-character chunks, a formatted message is the sequence of its        *)
(* literal pieces and of the values embedded in it.  A call evaluates to a *)
(* record saying whether it raised, which exception, and what it returned. *)
(***************************************************************************)
EXTENDS Integers, Sequences, FiniteSets, TLC

VARIABLES
    rc,         \* the last run_command call: its arguments, what the process did, the result
    chk,        \* the last run of a dependency check entry point
    container,  \* the foodtruck-api container is up (state of the container engine)
    fs,         \* which files of the API project exist
    lastOp,     \* the last lifecycle operation: its outcome and what it ran
    prevOp,     \* what the lifecycle operation before it did
    setup,      \* the setup target directory and the last two runs of a setup command
    comp        \* the shell config file, the carapace spec file, the last completion call

vars == <<rc, chk, container, fs, lastOp, prevOp, setup, comp>>

-----------------------------------------------------------------------------
(* Bounds *)

MaxStrLen == 2      \* longest captured stdout / stderr
MaxExitCode == 2    \* largest exit code a process returns
MaxFileLen == 2     \* most lines of a shell config file before the first install
MaxCalls == 3       \* most completion calls in a row

-----------------------------------------------------------------------------
(* Text *)

Whitespace == {" "}
Alphabet == {" ", "e"}

Strings == UNION {[1..n -> Alphabet] : n \in 0..MaxStrLen}

RECURSIVE LStrip(_)
LStrip(s) ==
    IF s = <<>> THEN <<>>
    ELSE IF Head(s) \in Whitespace THEN LStrip(Tail(s)) ELSE s

RECURSIVE RStrip(_)
RStrip(s) ==
    IF s = <<>> THEN <<>>
    ELSE IF s[Len(s)] \in Whitespace THEN RStrip(SubSeq(s, 1, Len(s) - 1)) ELSE s

\* str.strip()
Strip(s) == RStrip(LStrip(s))

\* ' '.join(cmd)
RECURSIVE Join(_)
Join(cmd) ==
    IF cmd = <<>> THEN <<>>
    ELSE IF Len(cmd) = 1 THEN <<cmd[1]>>
    ELSE <<cmd[1], " ">> \o Join(Tail(cmd))

\* substring test on chunks: the text holds the chunk
Contains(text, chunk) == \E i \in 1..Len(text) : text[i] = chunk

\* bool(s) of a str
Truthy(s) == s # <<>>

-----------------------------------------------------------------------------
(* Python values and calls *)

PyBool(b) == [type |-> "bool", value |-> b]

\* the attributes the callers read, per type of the object
AttributesOf(type) ==
    IF type \in {"bool", "Path"} THEN {} ELSE {"success", "stdout", "stderr"}

\* getattr succeeds
HasAttr(obj, name) == name \in AttributesOf(obj.type)

NoException == "none"

-----------------------------------------------------------------------------
(* subprocess.run: what the spawned process does *)

Commands == {<<>>, <<"git", "--version">>, <<"uv", "sync">>}

ExitOutcomes ==
    [kind : {"exit"}, code : 0..MaxExitCode, stdout : Strings, stderr : Strings]

FailKinds == {"timeout", "notfound", "perm", "other"}

ExceptionOutcomes == [kind : FailKinds, code : {0}, stdout : {<<>>}, stderr : {<<>>}]

Outcomes == ExitOutcomes \cup ExceptionOutcomes

\* subprocess.run(cmd, ..., check=True, timeout=...): the exception it raises
SubprocessRaises(cmd, o) ==
    IF cmd = <<>> THEN "IndexError"
    ELSE CASE o.kind = "exit" /\ o.code = 0 -> NoException
           [] o.kind = "exit" /\ o.code # 0 -> "CalledProcessError"
           [] o.kind = "timeout" -> "TimeoutExpired"
           [] o.kind = "notfound" -> "FileNotFoundError"
           [] o.kind = "perm" -> "PermissionError"
           [] OTHER -> "OSError"

-----------------------------------------------------------------------------
(* utils/run_command.py *)

\* timeout=300 of the subprocess.run call
TIMEOUT_SECONDS == 300

MutExceptClauses_NoCatchAll ==
    <<"CalledProcessError", "TimeoutExpired", "FileNotFoundError", "PermissionError">>

\* the except clauses of run_command, in order
ExceptClauses ==
    <<"CalledProcessError", "TimeoutExpired", "FileNotFoundError", "PermissionError",
      "Exception">>

\* the clause that handles exception e (every e here is a subclass of Exception),
\* 0 when none does
Handler(e) ==
    IF \E i \in 1..Len(ExceptClauses) : ExceptClauses[i] \in {e, "Exception"}
    THEN CHOOSE i \in 1..Len(ExceptClauses) :
            /\ ExceptClauses[i] \in {e, "Exception"}
            /\ \A j \in 1..(i - 1) : ExceptClauses[j] \notin {e, "Exception"}
    ELSE 0

Msg(level, text) == [level |-> level, text |-> text]

\* error_msg of the CalledProcessError clause
StderrMessage(o) ==
    IF Truthy(o.stderr) THEN Strip(o.stderr)
    ELSE <<"Command failed with exit code ", ToString(o.code)>>

\* the message each except clause prints
ErrorMessage(clause, cmd, o, e) ==
    CASE clause = "CalledProcessError" ->
            <<"Error running '">> \o Join(cmd) \o <<"': ">> \o StderrMessage(o)
      [] clause = "TimeoutExpired" ->
            <<"Command '">> \o Join(cmd) \o <<"' timed out after 5 minutes">>
      [] clause = "FileNotFoundError" ->
            <<"Command '", cmd[1], "' not found. Please ensure it's installed and in your PATH">>
      [] clause = "PermissionError" ->
            <<"Permission denied when running '">> \o Join(cmd) \o <<"'">>
      [] OTHER ->
            <<"Unexpected error running '">> \o Join(cmd) \o <<"': ", e>>

MutEmptyCommand_NoGuard(cmd) == FALSE

\* "if not cmd"
EmptyCommand(cmd) == cmd = <<>>

MutRunSucceeds_IgnoresExit(cmd, o) == SubprocessRaises(cmd, o) \in {NoException, "CalledProcessError"}

\* the try body reaches "success = True"
RunSucceeds(cmd, o) == SubprocessRaises(cmd, o) = NoException

\* run_command(cmd, cwd): the process does o once subprocess.run is invoked
RunCommand(cmd, o) ==
    IF EmptyCommand(cmd)
    THEN [raised |-> FALSE, exc |-> NoException, ret |-> PyBool(FALSE),
          invoked |-> FALSE, printed |-> <<Msg("error", <<"No command provided">>)>>]
    ELSE IF RunSucceeds(cmd, o)
    THEN [raised |-> FALSE, exc |-> NoException, ret |-> PyBool(TRUE),
          invoked |-> TRUE,
          printed |-> IF Truthy(o.stdout) /\ Truthy(Strip(o.stdout))
                      THEN <<Msg("success", Strip(o.stdout))>> ELSE <<>>]
    ELSE LET e == SubprocessRaises(cmd, o)
             h == Handler(e)
         IN IF h = 0
            THEN [raised |-> TRUE, exc |-> e, ret |-> PyBool(FALSE),
                  invoked |-> TRUE, printed |-> <<>>]
            ELSE [raised |-> FALSE, exc |-> NoException, ret |-> PyBool(FALSE),
                  invoked |-> TRUE,
                  printed |-> <<Msg("error", ErrorMessage(ExceptClauses[h], cmd, o, e))>>]

NoOutcome == [kind |-> "none", code |-> 0, stdout |-> <<>>, stderr |-> <<>>]

NoCall ==
    [called |-> FALSE, cmd |-> <<>>, o |-> NoOutcome,
     res |-> [raised |-> FALSE, exc |-> NoException, ret |-> PyBool(FALSE),
              invoked |-> FALSE, printed |-> <<>>]]

\* one call of run_command
CallRunCommand ==
    /\ \E cmd \in Commands, o \in Outcomes :
          rc' = [called |-> TRUE, cmd |-> cmd, o |-> o, res |-> RunCommand(cmd, o)]
    /\ UNCHANGED <<chk, container, fs, lastOp, prevOp, setup, comp>>

-----------------------------------------------------------------------------
(* API_SECTION *)
(* commands/api/api.py: the lifecycle of the API service's container *)

API_PORT == 3000

\* the world an operation acts on: the container engine and the project's files
\* with the steps the operation has taken so far, in order
World(running, files, ups, downs) ==
    [container |-> running, fs |-> files, ups |-> ups, downs |-> downs, log |-> <<>>]

\* a step of an operation, or a command it runs, is taken
Logged(w, event) == [w EXCEPT !.log = Append(@, event)]

\* what .env and .env.example hold: nothing, what the user wrote, or the text
\* _create_default_env_file synthesizes
NoText == ""
UserEnv == "user .env"
UserExample == "user .env.example"
PLACEHOLDER == "# .env.example - Sensitive settings for foodtruck-api"

NoFiles ==
    [project |-> FALSE, yml |-> FALSE, yaml |-> FALSE, env |-> FALSE, example |-> FALSE,
     envText |-> NoText, exampleText |-> NoText]

\* files of the project exist only inside an existing project directory; the files
\* that exist before the program ran are the user's
FileStates ==
    {[project |-> f.project, yml |-> f.yml, yaml |-> f.yaml, env |-> f.env,
      example |-> f.example,
      envText |-> IF f.env THEN UserEnv ELSE NoText,
      exampleText |-> IF f.example THEN UserExample ELSE NoText] :
        f \in {g \in [project : BOOLEAN, yml : BOOLEAN, yaml : BOOLEAN, env : BOOLEAN,
                      example : BOOLEAN] :
                  ~g.project => (~g.yml /\ ~g.yaml /\ ~g.env /\ ~g.example)}}

\* which open(..., "w") of _create_default_env_file raises
WriteFaults == {"none", "example", "env"}

\* what the environment does during one operation: the engine answers, the spawned
\* commands exit 0, a successful up/down takes effect, a file can be written
Choices ==
    [daemon : BOOLEAN, setupOk : BOOLEAN, upOk : BOOLEAN, downOk : BOOLEAN,
     execOk : BOOLEAN, effective : BOOLEAN, write : WriteFaults]

ProcessExit(ok, out) ==
    IF ok THEN [kind |-> "exit", code |-> 0, stdout |-> out, stderr |-> <<>>]
    ELSE [kind |-> "exit", code |-> 1, stdout |-> <<>>, stderr |-> <<"e">>]

\* "docker ps --filter name=foodtruck-api": one line per matching container
PsOutcome(w, ch) ==
    ProcessExit(ch.daemon, IF w.container THEN <<"c1", " ", "Up">> ELSE <<>>)

\* "docker inspect -f {{.State.Pid}} <id>"
InspectOutcome(w, ch) == ProcessExit(ch.daemon, <<"4242">>)

AttributeErrorText(obj, name) ==
    <<"'", obj.type, "' object has no attribute '", name, "'">>

ApiStatus(is_running, pid, port) == [is_running |-> is_running, pid |-> pid, port |-> port]

NoneValue == 0

\* _create_operation_result
ApiOperationResult(success, message, details) ==
    [raised |-> FALSE, exc |-> NoException, isNone |-> FALSE,
     success |-> success, message |-> message, details |-> details]

\* a helper's "return None"
ReturnNone ==
    [raised |-> FALSE, exc |-> NoException, isNone |-> TRUE,
     success |-> TRUE, message |-> <<>>, details |-> <<>>]

\* an exception leaving the function
Raised(e, text) ==
    [raised |-> TRUE, exc |-> e, isNone |-> FALSE,
     success |-> FALSE, message |-> <<>>, details |-> text]

\* the try body of get_api_status gets past "result.success"
StatusReadable(result) == HasAttr(result, "success")

\* get_api_status(): an exception in the try body is printed and the status is
\* "not running"
get_api_status(w, ch) ==
    LET result == RunCommand(<<"docker", "ps", "--filter", "name=foodtruck-api">>,
                             PsOutcome(w, ch)).ret
        pid_result == RunCommand(<<"docker", "inspect">>, InspectOutcome(w, ch)).ret
    IN IF ~StatusReadable(result)
       THEN ApiStatus(FALSE, NoneValue, NoneValue)
       ELSE IF result.value /\ Truthy(PsOutcome(w, ch).stdout)
       THEN ApiStatus(TRUE, IF pid_result.value THEN 4242 ELSE NoneValue, API_PORT)
       ELSE ApiStatus(FALSE, NoneValue, NoneValue)

\* the result of a step, with the world it leaves
Step(res, w) == [res |-> res, w |-> w]

\* "x = value" followed by the statements Rest that use x: the value is computed once
Bind(value, Rest(_)) == CHOOSE r \in {Rest(x) : x \in {value}} : TRUE

\* _check_and_setup_project()
check_and_setup_project(w0, ch) ==
    LET w == Logged(w0, "project")
    IN
    IF ~w.fs.project
    THEN LET setup_result == RunCommand(<<"foodtruck", "setup", "api">>,
                                        ProcessExit(ch.setupOk, <<>>)).ret
             w1 == Logged(w, "setup")
             w2 == IF ch.setupOk THEN [w1 EXCEPT !.fs.project = TRUE] ELSE w1
         IN IF ~HasAttr(setup_result, "success")
            THEN Step(Raised("AttributeError", AttributeErrorText(setup_result, "success")), w2)
            ELSE IF ~setup_result.value
            THEN Step(ApiOperationResult(FALSE, <<"Failed to setup API project">>, <<"e">>), w2)
            ELSE Step(ReturnNone, w2)
    ELSE Step(ReturnNone, w)

\* _check_docker_compose_file()
check_docker_compose_file(w0) ==
    LET w == Logged(w0, "compose")
        docker_compose_file == IF w.fs.yaml THEN "docker-compose.yaml" ELSE "docker-compose.yml"
        exists == IF w.fs.yaml THEN w.fs.yaml ELSE w.fs.yml
    IN IF ~exists
       THEN Step(ApiOperationResult(FALSE, <<"Docker Compose file not found">>,
                                    <<docker_compose_file>>), w)
       ELSE Step(ReturnNone, w)

MutEnvMissing_Always(w) == TRUE

\* "if not env_file.exists()"
EnvMissing(w) == ~w.fs.env

\* dst.write(src.read()): .env gets the text of .env.example
CopyExample(w) == [w EXCEPT !.fs.env = TRUE, !.fs.envText = w.fs.exampleText]

\* env_example_file.open("w") and the f.write calls
WriteExample(w) == [w EXCEPT !.fs.example = TRUE, !.fs.exampleText = PLACEHOLDER]

\* _create_default_env_file()
create_default_env_file(w0, ch) ==
    LET w == Logged(w0, "env")
    IN
    IF EnvMissing(w)
    THEN IF w.fs.example
         THEN IF ch.write = "env"
              THEN Step(ApiOperationResult(FALSE, <<"Failed to create default .env file">>,
                                           <<"PermissionError">>), w)
              ELSE Step(ReturnNone, CopyExample(w))
         ELSE IF ch.write = "example"
              THEN Step(ApiOperationResult(FALSE, <<"Failed to create default .env file">>,
                                           <<"PermissionError">>), w)
              ELSE IF ch.write = "env"
              THEN Step(ApiOperationResult(FALSE, <<"Failed to create default .env file">>,
                                           <<"PermissionError">>),
                        WriteExample(w))
              ELSE Step(ReturnNone, CopyExample(WriteExample(w)))
    ELSE Step(ReturnNone, w)

\* the engine after "docker compose up -d" was run
AfterUp(w, ch) ==
    [w EXCEPT !.ups = @ + 1, !.log = Append(@, "up"),
              !.container = IF ch.daemon /\ ch.upOk THEN (@ \/ ch.effective) ELSE @]

\* the engine after "docker compose down" was run
AfterDown(w, ch) ==
    [w EXCEPT !.downs = @ + 1, !.log = Append(@, "down"),
              !.container = IF ch.daemon /\ ch.downOk THEN (@ /\ ~ch.effective) ELSE @]

\* _start_docker_compose(build)
start_docker_compose(w, build, ch) ==
    LET command == <<"docker", "compose", "up", "-d">> \o (IF build THEN <<"--build">> ELSE <<>>)
        start_result == RunCommand(command, ProcessExit(ch.daemon /\ ch.upOk, <<>>)).ret
        w2 == AfterUp(w, ch)
        status == get_api_status(w2, ch)
    IN IF ~HasAttr(start_result, "success")
       THEN Step(Raised("AttributeError", AttributeErrorText(start_result, "success")), w2)
       ELSE IF ~start_result.value
       THEN Step(ApiOperationResult(FALSE, <<"Failed to start API service">>, <<"e">>), w2)
       ELSE IF status.is_running
       THEN Step(ApiOperationResult(TRUE,
                    <<"API service started successfully on port ", ToString(status.port)>>,
                    <<>>), w2)
       ELSE Step(ApiOperationResult(FALSE, <<"API service failed to start">>,
                    <<"Process did not start or is not listening on expected port">>), w2)

\* the steps of start_api_service after the status query
StartSteps(w, build, ch) ==
    Bind(check_and_setup_project(w, ch), LAMBDA s1 :
    IF s1.res.raised \/ ~s1.res.isNone THEN s1
    ELSE Bind(check_docker_compose_file(s1.w), LAMBDA s2 :
    IF ~s2.res.isNone THEN s2
    ELSE Bind(create_default_env_file(s2.w, ch), LAMBDA s3 :
    IF ~s3.res.isNone THEN s3
    ELSE Bind(start_docker_compose(s3.w, build, ch), LAMBDA s4 :
    IF s4.res.raised
    THEN Step(ApiOperationResult(FALSE, <<"Unexpected error starting API service">>,
                                 s4.res.details), s4.w)
    ELSE s4))))

\* start_api_service(build)
start_api_service(w, build, ch) ==
    LET status == get_api_status(w, ch)
    IN IF status.is_running
       THEN Step(ApiOperationResult(TRUE,
                    <<"API service already running on port ", ToString(status.port)>>,
                    <<>>), w)
       ELSE StartSteps(w, build, ch)


MutStopGuard_Skipped(status) == FALSE

\* "if not status.is_running" of stop_api_service
StopGuard(status) == ~status.is_running

\* stop_api_service()
stop_api_service(w, ch) ==
    LET status == get_api_status(w, ch)
        stop_result == RunCommand(<<"docker", "compose", "down">>,
                                  ProcessExit(ch.daemon /\ ch.downOk, <<>>)).ret
        w2 == AfterDown(w, ch)
        updated_status == get_api_status(w2, ch)
    IN IF StopGuard(status)
       THEN Step(ApiOperationResult(TRUE, <<"API service is not running">>, <<>>), w)
       ELSE IF ~HasAttr(stop_result, "success")
       THEN Step(ApiOperationResult(FALSE, <<"Unexpected error stopping API service">>,
                                    AttributeErrorText(stop_result, "success")), w2)
       ELSE IF ~stop_result.value
       THEN Step(ApiOperationResult(FALSE, <<"Failed to stop API service">>, <<"e">>), w2)
       ELSE IF ~updated_status.is_running
       THEN Step(ApiOperationResult(TRUE, <<"API service stopped successfully">>, <<>>), w2)
       ELSE Step(ApiOperationResult(FALSE, <<"Failed to stop API service">>,
                                    <<"Container is still running after stop command">>), w2)

\* restart_api_service()
restart_api_service(w, ch) ==
    Bind(stop_api_service(w, ch), LAMBDA stopped :
    Bind(Step(stopped.res, Logged(stopped.w, IF stopped.res.success THEN "stop ok"
                                             ELSE "stop failed")), LAMBDA stop_result :
    IF ~stop_result.res.success THEN stop_result
    ELSE Bind(start_api_service(stop_result.w, FALSE, ch), LAMBDA started :
    Bind(Step(started.res, Logged(started.w, IF started.res.raised THEN "start raised"
                                             ELSE IF started.res.success THEN "start ok"
                                             ELSE "start failed")), LAMBDA start_result :
    IF start_result.res.raised \/ ~start_result.res.success THEN start_result
    ELSE Step(ApiOperationResult(TRUE, <<"API service restarted successfully">>, <<>>),
              start_result.w)))))

MutServiceGuard_Skipped(status) == FALSE

\* "if not status.is_running" of get_api_logs, exec_api_command and run_migration
ServiceGuard(status) == ~status.is_running

\* get_api_logs, exec_api_command and run_migration: a command run in the project
\* directory once the service is found running
RunInService(w, ch, command, done, failed, unexpected) ==
    LET status == get_api_status(w, ch)
        result == RunCommand(command, ProcessExit(ch.daemon /\ ch.execOk, <<"e">>)).ret
        w2 == Logged(w, command[3])
    IN IF ServiceGuard(status)
       THEN Step(ApiOperationResult(FALSE, <<"API service is not running">>, <<>>), w)
       ELSE IF ~HasAttr(result, "success")
       THEN Step(ApiOperationResult(FALSE, <<unexpected>>,
                                    AttributeErrorText(result, "success")), w2)
       ELSE IF result.value
       THEN Step(ApiOperationResult(TRUE, <<done>>, <<"e">>), w2)
       ELSE Step(ApiOperationResult(FALSE, <<failed>>, <<"e">>), w2)

get_api_logs(w, ch) ==
    RunInService(w, ch, <<"docker", "compose", "logs", "--tail=50">>,
                 "Last 50 lines of API logs", "Failed to retrieve logs",
                 "Unexpected error retrieving API logs")

exec_api_command(w, ch) ==
    RunInService(w, ch, <<"docker", "compose", "exec", "api", "sh">>,
                 "Command executed successfully", "Failed to execute command",
                 "Unexpected error executing command in API container")

run_migration(w, ch) ==
    RunInService(w, ch, <<"docker", "compose", "exec", "api", "alembic", "upgrade", "head">>,
                 "Database migrations completed successfully",
                 "Failed to run database migrations",
                 "Unexpected error running database migrations")

\* api_status_command(): the status query alone
status_query(w, ch) ==
    LET status == get_api_status(w, ch)
    IN Step(ApiOperationResult(status.is_running,
                IF status.is_running THEN <<"API service is running on port ", ToString(status.port)>>
                ELSE <<"API service is not running">>, <<>>), w)

NoOp ==
    [op |-> "none", raised |-> FALSE, exc |-> NoException, success |-> TRUE,
     message |-> <<>>, details |-> <<>>, before |-> FALSE, after |-> FALSE,
     ups |-> 0, downs |-> 0, upExit0 |-> FALSE, downExit0 |-> FALSE, exit |-> 0,
     log |-> <<>>]

\* the exit code of an api command: sys.exit(1) on a failing result, and main() exits
\* with 1 on an exception; api_status_command never exits
CommandExit(op, res) ==
    IF op = "status" THEN 0
    ELSE IF res.raised THEN 1
    ELSE IF res.success THEN 0 ELSE 1

\* the record of one operation: its outcome, what it did to the engine, and the steps
\* it took
OpRecord(op, w, step, ch) ==
    [op |-> op, raised |-> step.res.raised, exc |-> step.res.exc,
     success |-> step.res.success, message |-> step.res.message,
     details |-> step.res.details,
     before |-> w.container, after |-> step.w.container,
     ups |-> step.w.ups - w.ups, downs |-> step.w.downs - w.downs,
     upExit0 |-> step.w.ups > w.ups /\ ch.daemon /\ ch.upOk,
     downExit0 |-> step.w.downs > w.downs /\ ch.daemon /\ ch.downOk,
     exit |-> CommandExit(op, step.res), log |-> step.w.log]

\* what the next operation can tell of the one before it
Summary(o) ==
    [op |-> o.op, success |-> o.success, ups |-> o.ups, upExit0 |-> o.upExit0,
     after |-> o.after]

\* the engine and the files as an operation finds them
Now == World(container, fs, 0, 0)

Perform(op, step, ch) ==
    /\ container' = step.w.container
    /\ fs' = step.w.fs
    /\ prevOp' = Summary(lastOp)
    /\ lastOp' = OpRecord(op, Now, step, ch)
    /\ UNCHANGED <<rc, chk, setup, comp>>

\* the choices an operation can depend on, in the world it finds: a project that
\* exists is not set up, an env file that exists is not written, an up or down that
\* failed has no effect
StartChoices(w) ==
    {c \in Choices :
        /\ c.downOk /\ c.execOk
        /\ c.upOk => c.daemon
        /\ w.fs.project => c.setupOk
        /\ w.fs.env => c.write = "none"
        /\ ~c.upOk => c.effective}

StopChoices ==
    {c \in Choices :
        /\ c.setupOk /\ c.upOk /\ c.execOk /\ c.write = "none"
        /\ c.downOk => c.daemon
        /\ ~c.downOk => c.effective}

ExecChoices ==
    {c \in Choices :
        /\ c.setupOk /\ c.upOk /\ c.downOk /\ c.effective /\ c.write = "none"
        /\ c.execOk => c.daemon}

Start == \E build \in BOOLEAN, ch \in StartChoices(Now) :
            \E step \in {start_api_service(Now, build, ch)} : Perform("start", step, ch)

\* api_setup_command() and api_install_command(): start_api_service() under another name
ApiSetup == \E ch \in StartChoices(Now) :
                \E step \in {start_api_service(Now, FALSE, ch)} : Perform("setup", step, ch)

ApiInstall == \E ch \in StartChoices(Now) :
                \E step \in {start_api_service(Now, FALSE, ch)} : Perform("install", step, ch)

Stop == \E ch \in StopChoices :
            \E step \in {stop_api_service(Now, ch)} : Perform("stop", step, ch)

Restart == \E ch \in StartChoices(Now) :
            \E step \in {restart_api_service(Now, ch)} : Perform("restart", step, ch)

Logs == \E ch \in ExecChoices :
            \E step \in {get_api_logs(Now, ch)} : Perform("logs", step, ch)

Exec == \E ch \in ExecChoices :
            \E step \in {exec_api_command(Now, ch)} : Perform("exec", step, ch)

Migrate == \E ch \in ExecChoices :
            \E step \in {run_migration(Now, ch)} : Perform("migrate", step, ch)

Status == \E ch \in ExecChoices :
            \E step \in {status_query(Now, ch)} : Perform("status", step, ch)

\* the container is started or stopped by something else than this program
ContainerChanges ==
    /\ container' = ~container
    /\ UNCHANGED <<rc, chk, fs, lastOp, prevOp, setup, comp>>

-----------------------------------------------------------------------------
(* CHECK_SECTION *)
(* The dependency check: commands/check.py (module) and commands/check/ (package) *)

\* the keys of the dict literal, in the order its values are evaluated
ProbeOrder == <<"Python 3.13", "UV", "Git", "Docker", "Docker Daemon">>

NumProbes == Len(ProbeOrder)

\* what "<tool> --version" or "docker info" may do
VersionOutputs ==
    {<<"Python 3.13", ".6", " ">>, <<"Python 3.12", ".0", " ">>}

ProbeOutcomes ==
    [kind : {"exit"}, code : {0}, stdout : VersionOutputs, stderr : {<<>>}]
    \cup [kind : {"exit"}, code : {1}, stdout : {<<>>}, stderr : {<<"e">>}]
    \cup [kind : {"notfound", "other"}, code : {0}, stdout : {<<>>}, stderr : {<<>>}]

DependencyStatus(is_ok, message) == [is_ok |-> is_ok, message |-> message]

ProbeCommand(name) ==
    CASE name = "Python 3.13" -> <<"python", "--version">>
      [] name = "UV" -> <<"uv", "--version">>
      [] name = "Git" -> <<"git", "--version">>
      [] name = "Docker" -> <<"docker", "--version">>
      [] OTHER -> <<"docker", "info">>

(* commands/check.py: each probe calls subprocess.run itself *)

Legacy_check_python_version(o) ==
    LET e == SubprocessRaises(ProbeCommand("Python 3.13"), o)
        version == Strip(o.stdout)
    IN CASE e = "CalledProcessError" ->
                DependencyStatus(FALSE, <<"Python not found or not executable">>)
         [] e \notin {NoException, "CalledProcessError"} ->
                DependencyStatus(FALSE, <<"Error checking Python: ", e>>)
         [] OTHER ->
                IF Contains(version, "Python 3.13")
                THEN DependencyStatus(TRUE, version)
                ELSE DependencyStatus(FALSE,
                        <<"Found ">> \o version \o <<", but ", "Python 3.13", " is required">>)

\* check_uv, check_git, check_docker: the same function for three tools
Legacy_check_tool(name, o) ==
    LET e == SubprocessRaises(ProbeCommand(name), o)
    IN CASE e = "CalledProcessError" ->
                DependencyStatus(FALSE, <<name, " not found or not executable">>)
         [] e = "FileNotFoundError" ->
                DependencyStatus(FALSE, <<name, " not installed">>)
         [] e \notin {NoException, "CalledProcessError", "FileNotFoundError"} ->
                DependencyStatus(FALSE, <<"Error checking ", name, ": ", e>>)
         [] OTHER -> DependencyStatus(TRUE, Strip(o.stdout))

Legacy_check_docker_daemon(o) ==
    LET e == SubprocessRaises(ProbeCommand("Docker Daemon"), o)
    IN CASE e = "CalledProcessError" ->
                DependencyStatus(FALSE, <<"Docker daemon is not running">>)
         [] e \notin {NoException, "CalledProcessError"} ->
                DependencyStatus(FALSE, <<"Error checking Docker daemon: ", e>>)
         [] OTHER -> DependencyStatus(TRUE, <<"Docker daemon is running">>)

Legacy_probe(name, o) ==
    CASE name = "Python 3.13" -> Legacy_check_python_version(o)
      [] name = "Docker Daemon" -> Legacy_check_docker_daemon(o)
      [] OTHER -> Legacy_check_tool(name, o)

\* check_dependencies(): the dict of the five probes' statuses, in insertion order;
\* os[i] is what the process of probe i does
Legacy_check_dependencies(os) ==
    [raised |-> FALSE, exc |-> NoException,
     ran |-> ProbeOrder,
     results |-> [i \in 1..NumProbes |->
                     [name |-> ProbeOrder[i], status |-> Legacy_probe(ProbeOrder[i], os[i])]]]

\* print_dependency_status
StatusLine(name, status) ==
    [ev |-> "status", level |-> IF status.is_ok THEN "success" ELSE "error",
     name |-> name, code |-> 0]

\* the end of the command: sys.exit(code), or a plain return (code 0)
EndEvent(code) == [ev |-> "end", level |-> "none", name |-> "", code |-> code]

StatusLines(results) == [i \in 1..Len(results) |-> StatusLine(results[i].name, results[i].status)]

\* the all_ok flag the loop of check_command leaves
LegacyAllOk(results) == ~\E i \in 1..Len(results) : ~results[i].status.is_ok

\* "if all_ok: ... else: ... sys.exit(1)"
ExitCode(all_ok) == IF all_ok THEN 0 ELSE 1

\* check_command() of commands/check.py
Legacy_check_command(os) ==
    LET deps == Legacy_check_dependencies(os)
        all_ok == LegacyAllOk(deps.results)
    IN [impl |-> "legacy", raised |-> FALSE, exc |-> NoException,
        ran |-> deps.ran, results |-> deps.results, all_ok |-> all_ok,
        log |-> StatusLines(deps.results) \o <<EndEvent(ExitCode(all_ok))>>,
        exit |-> ExitCode(all_ok)]


(* commands/check/: each probe goes through run_command *)

\* the parameters of run_command(cmd, cwd)
RunCommandParams == {"cmd", "cwd"}

\* a call that passes these keyword arguments binds
Accepts(kwargs) == kwargs \subseteq RunCommandParams

Raise(e) == [raised |-> TRUE, exc |-> e, status |-> DependencyStatus(FALSE, <<>>), invoked |-> FALSE]

Return(status) == [raised |-> FALSE, exc |-> NoException, status |-> status, invoked |-> TRUE]

\* run_command(cmd, timeout=30) followed by the first read of result.success
ProbeCall(name, o) ==
    IF ~Accepts({"timeout"}) THEN Raise("TypeError")
    ELSE IF ~HasAttr(RunCommand(ProbeCommand(name), o).ret, "success")
    THEN [Raise("AttributeError") EXCEPT !.invoked = TRUE]
    ELSE Return(DependencyStatus(TRUE, <<>>))

check_python_version(o) ==
    LET call == ProbeCall("Python 3.13", o)
        result == RunCommand(ProbeCommand("Python 3.13"), o).ret
    IN IF call.raised THEN call
       ELSE IF ~result.success
       THEN Return(DependencyStatus(FALSE,
                <<"Python not found or not executable: ">> \o result.stderr))
       ELSE IF Contains(result.stdout, "Python 3.13")
       THEN Return(DependencyStatus(TRUE, result.stdout))
       ELSE Return(DependencyStatus(FALSE,
                <<"Found ">> \o result.stdout \o <<", but ", "Python 3.13", " is required">>))

\* check_uv, check_git, check_docker: the same function for three tools
check_tool(name, o) ==
    LET call == ProbeCall(name, o)
        result == RunCommand(ProbeCommand(name), o).ret
    IN IF call.raised THEN call
       ELSE IF ~result.success
       THEN IF Contains(result.stderr, "not found")
            THEN Return(DependencyStatus(FALSE, <<name, " not installed">>))
            ELSE Return(DependencyStatus(FALSE, <<name, " error: ">> \o result.stderr))
       ELSE Return(DependencyStatus(TRUE, result.stdout))

check_docker_daemon(o) ==
    LET call == ProbeCall("Docker Daemon", o)
        result == RunCommand(ProbeCommand("Docker Daemon"), o).ret
    IN IF call.raised THEN call
       ELSE IF ~result.success
       THEN IF Contains(result.stderr, "Cannot connect") \/ Contains(result.stderr, "daemon")
            THEN Return(DependencyStatus(FALSE, <<"Docker daemon is not running">>))
            ELSE Return(DependencyStatus(FALSE, <<"Docker daemon error: ">> \o result.stderr))
       ELSE Return(DependencyStatus(TRUE, <<"Docker daemon is running">>))

Package_probe(name, o) ==
    CASE name = "Python 3.13" -> check_python_version(o)
      [] name = "Docker Daemon" -> check_docker_daemon(o)
      [] OTHER -> check_tool(name, o)

Mutfrom_results_Any(results) ==
    [results |-> results, all_ok |-> \E i \in 1..Len(results) : results[i].status.is_ok]

\* CheckResult.from_results: all(status.is_ok for status in results.values())
from_results(results) ==
    [results |-> results, all_ok |-> \A i \in 1..Len(results) : results[i].status.is_ok]

\* the entries of the dict literal of perform_dependency_checks that are evaluated:
\* its values are evaluated in order, and a probe that raises ends the evaluation
Evaluated(calls) ==
    LET Raising == {i \in 1..NumProbes : calls[i].raised}
    IN IF Raising = {} THEN NumProbes ELSE CHOOSE i \in Raising : \A j \in Raising : i <= j

perform_dependency_checks(os) ==
    LET calls == [i \in 1..NumProbes |-> Package_probe(ProbeOrder[i], os[i])]
        n == Evaluated(calls)
        Invoked == {i \in 1..n : calls[i].invoked}
    IN IF calls[n].raised
       THEN [raised |-> TRUE, exc |-> calls[n].exc,
             ran |-> SubSeq(ProbeOrder, 1, Cardinality(Invoked)),
             results |-> <<>>, all_ok |-> FALSE]
       ELSE [raised |-> FALSE, exc |-> NoException,
             ran |-> SubSeq(ProbeOrder, 1, Cardinality(Invoked))]
            @@ from_results([i \in 1..n |->
                                [name |-> ProbeOrder[i], status |-> calls[i].status]])

\* the body of check_dependencies_command() after perform_dependency_checks()
ReportAndExit(check_result) ==
    IF check_result.raised
    THEN [impl |-> "package", raised |-> TRUE, exc |-> check_result.exc,
          ran |-> check_result.ran, results |-> <<>>, all_ok |-> FALSE,
          log |-> <<>>, exit |-> 0]
    ELSE [impl |-> "package", raised |-> FALSE, exc |-> NoException,
          ran |-> check_result.ran, results |-> check_result.results,
          all_ok |-> check_result.all_ok,
          log |-> StatusLines(check_result.results)
                     \o <<EndEvent(ExitCode(check_result.all_ok))>>,
          exit |-> ExitCode(check_result.all_ok)]

\* check_dependencies_command() of commands/check/command.py
check_dependencies_command(os) == ReportAndExit(perform_dependency_checks(os))

\* main(): an exception of the command is printed and the process exits with 1
Main(run) ==
    IF run.raised
    THEN [run EXCEPT !.log = @ \o <<[ev |-> "error", level |-> "error", name |-> run.exc,
                                     code |-> 0], EndEvent(1)>>,
                     !.exit = 1]
    ELSE run

NoCheck ==
    [impl |-> "none", raised |-> FALSE, exc |-> NoException, ran |-> <<>>,
     results |-> <<>>, all_ok |-> TRUE, log |-> <<>>, exit |-> 0, py |-> NoOutcome]

\* the run of a command, with what the interpreter's "--version" process did in it
WithProbe(run, o) == [py |-> o] @@ run

\* one run of the command is one process: it starts with nothing checked
ProbeRuns == [1..NumProbes -> ProbeOutcomes]

\* "foodtruck check" resolved to commands/check.py
RunLegacyCheck ==
    /\ chk.impl = "none"
    /\ \E os \in ProbeRuns : chk' = WithProbe(Main(Legacy_check_command(os)), os[1])
    /\ UNCHANGED <<rc, container, fs, lastOp, prevOp, setup, comp>>

\* "foodtruck check" resolved to the package commands/check/
RunPackageCheck ==
    /\ chk.impl = "none"
    /\ \E os \in ProbeRuns : chk' = WithProbe(Main(check_dependencies_command(os)), os[1])
    /\ UNCHANGED <<rc, container, fs, lastOp, prevOp, setup, comp>>

\* CheckResult.from_results on any five statuses
ApplyFromResults ==
    /\ chk.impl = "none"
    /\ \E oks \in [1..NumProbes -> BOOLEAN] :
          LET results == [i \in 1..NumProbes |->
                            [name |-> ProbeOrder[i],
                             status |-> DependencyStatus(oks[i], <<ProbeOrder[i]>>)]]
              r == from_results(results)
          IN chk' = [impl |-> "from_results", raised |-> FALSE, exc |-> NoException,
                     ran |-> <<>>, results |-> r.results, all_ok |-> r.all_ok,
                     log |-> <<>>, exit |-> 0, py |-> NoOutcome]
    /\ UNCHANGED <<rc, container, fs, lastOp, prevOp, setup, comp>>

-----------------------------------------------------------------------------
(* SETUP_SECTION *)
(* The project setup: commands/setup/ (package) and commands/setup.py (module) *)

API_PROJECT == "foodtruck-api"
WEBSITE_PROJECT == "foodtruck-website"

ProjectNames == {API_PROJECT, WEBSITE_PROJECT}

\* the directory the projects are cloned into: it exists, it holds the two project
\* directories, it holds entries of other names
TargetStates ==
    {t \in [exists : BOOLEAN, api : BOOLEAN, web : BOOLEAN, other : BOOLEAN] :
        ~t.exists => ~(t.api \/ t.web \/ t.other)}

\* (base_path / project_name).exists()
HasDir(t, name) == IF name = API_PROJECT THEN t.api ELSE t.web

WithDir(t, name) ==
    IF name = API_PROJECT THEN [t EXCEPT !.api = TRUE] ELSE [t EXCEPT !.web = TRUE]

\* any(path.iterdir())
HasEntries(t) == t.api \/ t.web \/ t.other

\* create_dir(target): mkdir(parents=True, exist_ok=True)
create_dir(t) == [t EXCEPT !.exists = TRUE]

\* SetupOptions: the two skip flags (the repository urls do not decide anything)
SetupOptions == [skip_api : BOOLEAN, skip_website : BOOLEAN]

\* the options the three setup commands build
CommandOptions ==
    [api |-> [skip_api |-> FALSE, skip_website |-> TRUE],
     website |-> [skip_api |-> TRUE, skip_website |-> FALSE],
     all |-> [skip_api |-> FALSE, skip_website |-> FALSE]]

should_setup_api(opts) == ~opts.skip_api

Mutshould_setup_website_Never(opts) == FALSE

should_setup_website(opts) == ~opts.skip_website

\* what "git clone" may do: exit 0, exit 1 with a message on stderr, run into the
\* timeout and be killed with the directory half written
CloneStderr == <<"fatal: repository not found", " ">>

CloneOutcomes ==
    {[kind |-> "exit", code |-> 0, stdout |-> <<>>, stderr |-> <<>>],
     [kind |-> "exit", code |-> 1, stdout |-> <<>>, stderr |-> CloneStderr],
     [kind |-> "timeout", code |-> 0, stdout |-> <<>>, stderr |-> <<>>]}

\* what the environment does during one run of setup: the clone of each project,
\* "uv --version", "uv sync", and (module only) package.json and "npm install"
SetupChoices ==
    [clone : [ProjectNames -> CloneOutcomes], uv : BOOLEAN, sync : BOOLEAN,
     package_json : BOOLEAN, npm : BOOLEAN]

\* the directory after "git clone" was run
AfterClone(t, name, o) ==
    IF o.kind = "timeout" \/ (o.kind = "exit" /\ o.code = 0) THEN WithDir(t, name) ELSE t

\* an external command the run invoked, for a project
Invocation(cmd, name) == [cmd |-> cmd, project |-> name]

ProjectSetupResult(success, message, project_path) ==
    [success |-> success, message |-> message, project_path |-> project_path]

NoPath == ""

\* what a step returns, the commands it invoked, the directory it leaves
SetupStep(res, cmds, t) == [res |-> res, cmds |-> cmds, t |-> t]

\* _install_api_dependencies(project_path, project_name)
install_api_dependencies(t, name, ch) ==
    LET version == RunCommand(<<"uv", "--version">>, ProcessExit(ch.uv, <<>>)).ret
        sync == RunCommand(<<"uv", "sync">>, ProcessExit(ch.sync, <<>>)).ret
    IN IF ~version.value
       THEN SetupStep(ProjectSetupResult(FALSE,
                <<"UV is not available. Please install UV first.">>, NoPath),
                <<Invocation("uv --version", name)>>, t)
       ELSE IF ~sync.value
       THEN SetupStep(ProjectSetupResult(FALSE,
                <<"Failed to install ", name, " dependencies.">>, NoPath),
                <<Invocation("uv --version", name), Invocation("uv sync", name)>>, t)
       ELSE SetupStep(ProjectSetupResult(TRUE,
                <<name, " dependencies setup completed!">>, NoPath),
                <<Invocation("uv --version", name), Invocation("uv sync", name)>>, t)

\* clone_repository(repo_url, target_path) of utils/git.py: None when the path
\* exists, else what run_command returns
clone_repository(t, name, ch) ==
    IF HasDir(t, name)
    THEN [cloned |-> FALSE, cmds |-> <<>>, t |-> t]
    ELSE [cloned |-> RunCommand(<<"git", "clone", name>>, ch.clone[name]).ret.value,
          cmds |-> <<Invocation("git clone", name)>>,
          t |-> AfterClone(t, name, ch.clone[name])]

Mutproject_exists_Never(t, name) == FALSE

\* project_exists(base_path, project_name)
project_exists(t, name) == HasDir(t, name)

MutSkipGuard_Ignored(skip_flag) == FALSE

\* "if skip_flag" of _setup_project
SkipGuard(skip_flag) == skip_flag

\* "api" in project_name.lower()
IsApiProject(name) == name = API_PROJECT

MutInstallFailed_Ignored(result) == FALSE

\* "if not result.success" of _setup_project
InstallFailed(result) == ~result.success

\* _setup_project(target_path, project_name, repo_url, skip_flag)
setup_project(t, name, skip_flag, ch) ==
    IF SkipGuard(skip_flag)
    THEN SetupStep(ProjectSetupResult(TRUE, <<"Skipping ", name, " setup">>, NoPath), <<>>, t)
    ELSE IF project_exists(t, name)
    THEN SetupStep(ProjectSetupResult(TRUE, <<>>, name), <<>>, t)
    ELSE LET clone == clone_repository(t, name, ch)
             install == install_api_dependencies(clone.t, name, ch)
         IN IF ~clone.cloned
            THEN SetupStep(ProjectSetupResult(FALSE, <<"Failed to clone ", name>>, NoPath),
                           clone.cmds, clone.t)
            ELSE IF IsApiProject(name) /\ InstallFailed(install.res)
            THEN SetupStep(install.res, clone.cmds \o install.cmds, install.t)
            ELSE IF IsApiProject(name)
            THEN SetupStep(ProjectSetupResult(TRUE, <<>>, name),
                           clone.cmds \o install.cmds, install.t)
            ELSE SetupStep(ProjectSetupResult(TRUE, <<>>, name), clone.cmds, clone.t)

\* print_setup_failure_message: the lines it prints before sys.exit(1)
FailureLines(api_result, website_result) ==
    <<<<"Setup failed. Please check the errors above.">>>>
    \o (IF ~api_result.success /\ Truthy(api_result.message)
        THEN <<<<"API: ">> \o api_result.message>> ELSE <<>>)
    \o (IF ~website_result.success /\ Truthy(website_result.message)
        THEN <<<<"Website: ">> \o website_result.message>> ELSE <<>>)

\* the record of one run of a setup entry point
SetupRun(impl, opts, ch, before, after, api_result, website_result, cmds, refused, raised, exit, errors) ==
    [impl |-> impl, opts |-> opts, ch |-> ch, before |-> before, after |-> after,
     api |-> api_result, web |-> website_result, cmds |-> cmds, refused |-> refused,
     raised |-> raised, exit |-> exit, errors |-> errors]

\* setup_environment(setup_options) of commands/setup/setup.py
setup_environment(t, opts, ch) ==
    LET target_path == create_dir(t)
        api_step == setup_project(target_path, API_PROJECT, ~should_setup_api(opts), ch)
        website_step == setup_project(api_step.t, WEBSITE_PROJECT,
                                      ~should_setup_website(opts), ch)
        ok == api_step.res.success /\ website_step.res.success
    IN SetupRun("package", opts, ch, t, website_step.t, api_step.res, website_step.res,
                api_step.cmds \o website_step.cmds, FALSE, FALSE,
                IF ok THEN 0 ELSE 1,
                IF ok THEN <<>> ELSE FailureLines(api_step.res, website_step.res))

(* commands/setup.py: the module's own run_command, one directory check up front *)

\* run_command(cmd, cwd) of commands/setup.py: only CalledProcessError is caught
Legacy_run_command(cmd, o) ==
    LET e == SubprocessRaises(cmd, o)
    IN [raised |-> e \notin {NoException, "CalledProcessError"}, exc |-> e,
        value |-> e = NoException]

\* clone_repository followed by setup_api_project / setup_website_project, joined by
\* "not clone(...) or not setup(...)": the project's outcome with the error printed
Legacy_project(t, name, ch) ==
    LET clone == Legacy_run_command(<<"git", "clone", name>>, ch.clone[name])
        t2 == AfterClone(t, name, ch.clone[name])
        git == <<Invocation("git clone", name)>>
        version == <<Invocation("uv --version", name)>>
        sync == <<Invocation("uv sync", name)>>
        npm == <<Invocation("npm install", name)>>
    IN IF ~clone.value
       THEN SetupStep(ProjectSetupResult(FALSE, <<>>, NoPath), git, t2)
       ELSE IF IsApiProject(name)
       THEN IF ~ch.uv
            THEN SetupStep(ProjectSetupResult(FALSE,
                    <<"UV is not available. Please install UV first.">>, NoPath),
                    git \o version, t2)
            ELSE IF ~ch.sync
            THEN SetupStep(ProjectSetupResult(FALSE,
                    <<"Failed to install API dependencies.">>, NoPath),
                    git \o version \o sync, t2)
            ELSE SetupStep(ProjectSetupResult(TRUE, <<>>, name), git \o version \o sync, t2)
       ELSE IF ch.package_json
       THEN IF ~ch.npm
            THEN SetupStep(ProjectSetupResult(FALSE,
                    <<"Failed to install website dependencies.">>, NoPath), git \o npm, t2)
            ELSE SetupStep(ProjectSetupResult(TRUE, <<>>, name), git \o npm, t2)
       ELSE SetupStep(ProjectSetupResult(TRUE, <<>>, name), git, t2)

\* a project the options skip
Legacy_skipped(t, name) ==
    SetupStep(ProjectSetupResult(TRUE, <<"Skipping ", name, " setup">>, NoPath), <<>>, t)

\* _setup_environment(...) of commands/setup.py; t is the directory the projects go to
Legacy_setup_environment(t, opts, ch) ==
    LET foodtruck_path == create_dir(t)
        api_step == IF opts.skip_api THEN Legacy_skipped(foodtruck_path, API_PROJECT)
                    ELSE Legacy_project(foodtruck_path, API_PROJECT, ch)
        website_step == IF opts.skip_website THEN Legacy_skipped(api_step.t, WEBSITE_PROJECT)
                        ELSE Legacy_project(api_step.t, WEBSITE_PROJECT, ch)
        success == api_step.res.success /\ website_step.res.success
    IN IF HasEntries(foodtruck_path)
       THEN SetupRun("legacy", opts, ch, t, foodtruck_path,
                     ProjectSetupResult(FALSE, <<>>, NoPath),
                     ProjectSetupResult(FALSE, <<>>, NoPath), <<>>, TRUE, FALSE, 1,
                     <<<<"Directory ", "foodtruck", " already has content. Please clean it first or use a different target directory.">>>>)
       ELSE SetupRun("legacy", opts, ch, t, website_step.t, api_step.res, website_step.res,
                     api_step.cmds \o website_step.cmds, FALSE, FALSE,
                     IF success THEN 0 ELSE 1,
                     IF success THEN <<>>
                     ELSE <<<<"Setup failed. Please check the errors above.">>>>)

NoProjectResult == ProjectSetupResult(TRUE, <<>>, NoPath)

NoSetupRun ==
    SetupRun("none", [skip_api |-> FALSE, skip_website |-> FALSE],
             [clone |-> [n \in ProjectNames |-> NoOutcome], uv |-> FALSE, sync |-> FALSE,
              package_json |-> FALSE, npm |-> FALSE],
             [exists |-> FALSE, api |-> FALSE, web |-> FALSE, other |-> FALSE],
             [exists |-> FALSE, api |-> FALSE, web |-> FALSE, other |-> FALSE],
             NoProjectResult, NoProjectResult, <<>>, FALSE, FALSE, 0, <<>>)

\* what the next run can tell of the one before it
RunSummary(run) ==
    [impl |-> run.impl, opts |-> run.opts, exit |-> run.exit, invoked |-> Len(run.cmds)]

SetupState(t, last, prev) == [t |-> t, last |-> last, prev |-> prev]

NoSetup == SetupState(NoSetupRun.before, NoSetupRun, RunSummary(NoSetupRun))

\* the choices a run can depend on: "uv sync" is reached only after "uv --version"
\* succeeded, and the package has no npm step
PackageChoices ==
    {c \in SetupChoices : ~c.package_json /\ ~c.npm /\ (~c.uv => ~c.sync)}

\* the module's subprocess.run has no timeout, and "npm install" is reached only
\* when package.json exists
LegacyChoices ==
    {c \in SetupChoices :
        /\ \A n \in ProjectNames : c.clone[n].kind = "exit"
        /\ ~c.uv => ~c.sync
        /\ ~c.package_json => ~c.npm}

\* "foodtruck setup ..." resolved to the package commands/setup/
RunSetup ==
    /\ setup.last.impl # "legacy"
    /\ \E opts \in SetupOptions, ch \in PackageChoices :
          LET run == setup_environment(setup.t, opts, ch)
          IN setup' = SetupState(run.after, run, RunSummary(setup.last))
    /\ UNCHANGED <<rc, chk, container, fs, lastOp, prevOp, comp>>

\* "foodtruck setup ..." resolved to the module commands/setup.py, in a fresh
\* environment
RunLegacySetup ==
    /\ setup.last.impl = "none"
    /\ \E cmd \in DOMAIN CommandOptions, ch \in LegacyChoices :
          LET run == Legacy_setup_environment(setup.t, CommandOptions[cmd], ch)
          IN setup' = SetupState(run.after, run, RunSummary(setup.last))
    /\ UNCHANGED <<rc, chk, container, fs, lastOp, prevOp, comp>>

-----------------------------------------------------------------------------
(* COMPLETION_SECTION *)
(* The shell completion: commands/completion/ *)

\* A line of a shell config file is the sequence of its words; a file is the
\* sequence of its lines, with whether the last line ends with a newline.

Shells == {"bash", "zsh", "fish", "powershell", "cmd"}

\* where get_carapace_path() finds the executable: next to the package, or on PATH
Carapaces ==
    {[dir |-> "/site/foodtruck_cli/carapace-bin",
      path |-> "/site/foodtruck_cli/carapace-bin/carapace"],
     [dir |-> "/usr/local/bin", path |-> "/usr/local/bin/carapace"]}

\* the words that hold "carapace"
CarapaceWords ==
    {"carapace", "_carapace", "/site/foodtruck_cli/carapace-bin",
     "/site/foodtruck_cli/carapace-bin/carapace", "/usr/local/bin/carapace"}

MARKER == "Food Truck CLI completion"

\* "carapace" in content and "foodtruck" in content
AlreadyConfigured(lines) ==
    LET FoodtruckWords == {"/site/foodtruck_cli/carapace-bin",
                           "/site/foodtruck_cli/carapace-bin/carapace"}
    IN /\ \E i \in 1..Len(lines) : \E j \in 1..Len(lines[i]) :
              lines[i][j] \in CarapaceWords
       /\ \E i \in 1..Len(lines) : \E j \in 1..Len(lines[i]) :
              lines[i][j] \in FoodtruckWords

\* "carapace" in line.lower()
LowerHasCarapace(line) ==
    \E j \in 1..Len(line) :
        line[j] \in CarapaceWords \cup {"CARAPACE_BRIDGES", "$env:CARAPACE_BRIDGES"}

\* get_shell_setup_commands(shell, carapace_path): the lines of the text it returns
get_shell_setup_commands(shell, c) ==
    LET AddToPath == <<"#", "Add", "carapace", "to", "PATH">>
        Bridges == <<"#", "Optional:", "Configure", "bridges">>
        LoadAll == <<"#", "Load", "all", "carapace", "completions">>
        BridgeList == "'zsh,fish,bash,inshellisense'"
    IN
        CASE shell = "bash" ->
                <<AddToPath, <<"export", "PATH=", c.dir, ":$PATH">>, <<>>,
                  LoadAll, <<"source", "<(", c.path, "_carapace", ")">>>>
          [] shell = "zsh" ->
                <<AddToPath, <<"export", "PATH=", c.dir, ":$PATH">>, <<>>,
                  Bridges, <<"export", "CARAPACE_BRIDGES", "=", BridgeList>>, <<>>,
                  <<"#", "Optional:", "Configure", "completion", "style">>,
                  <<"zstyle", "':completion:*'", "format", "$'Completing %d'">>, <<>>,
                  LoadAll, <<"source", "<(", c.path, "_carapace", ")">>>>
          [] shell = "fish" ->
                <<AddToPath, <<"set", "-Ux", "PATH", c.dir, "$PATH">>, <<>>,
                  Bridges, <<"set", "-Ux", "CARAPACE_BRIDGES", BridgeList>>, <<>>,
                  LoadAll, <<c.path, "_carapace", "|", "source">>>>
          [] shell = "powershell" ->
                <<AddToPath, <<"$env:PATH", "=", c.dir, ";", "+", "$env:PATH">>, <<>>,
                  Bridges, <<"$env:CARAPACE_BRIDGES", "=", BridgeList>>, <<>>,
                  <<"#", "Configure", "PowerShell", "completion">>,
                  <<"Set-PSReadLineOption", "-Colors", "@{ Selection }">>,
                  <<"Set-PSReadlineKeyHandler", "-Key", "Tab", "-Function", "MenuComplete">>,
                  <<>>,
                  LoadAll, <<c.path, "_carapace", "|", "Out-String", "|", "Invoke-Expression">>>>
          [] OTHER ->
                <<AddToPath, <<"set", "PATH=", c.dir, ";%PATH%">>, <<>>,
                  <<"#", "Note:", "CMD", "completion", "is", "limited.">>>>

\* the batch file auto_configure_shell writes for cmd, which is cmd's config file
BatchFile(c) ==
    <<<<"@echo", "off">>, <<"REM", MARKER, "for", "CMD">>,
      <<"set", "PATH=", c.dir, ";%PATH%">>,
      <<"REM", "Note:", "CMD", "completion", "is", "limited.">>>>

MarkerLine == <<"#", MARKER, "(auto-configured)">>

ConfigFile(exists, lines, eol) == [exists |-> exists, lines |-> lines, eol |-> eol]

NoFile == ConfigFile(FALSE, <<>>, TRUE)

\* config_file.open("a"): write("\n# Food Truck CLI completion (auto-configured)\n"),
\* write(setup_commands), write("\n"); the first "\n" ends an unfinished last line
Appended(file, setup_commands) ==
    ConfigFile(TRUE,
               file.lines \o (IF file.lines = <<>> \/ file.eol THEN <<<<>>>> ELSE <<>>)
                          \o <<MarkerLine>> \o setup_commands,
               TRUE)

\* which file operation fails, and how
IoFaults == {"none", "PermissionError", "OSError"}

\* auto_configure_shell(shell, carapace_path) of completion.py: True, or False when
\* a file operation raised; with the file it leaves
auto_configure_shell(file, shell, c, fault) ==
    IF fault # "none" THEN [ok |-> FALSE, exc |-> fault, wrote |-> FALSE, file |-> file]
    ELSE IF file.exists /\ AlreadyConfigured(file.lines)
    THEN [ok |-> TRUE, exc |-> NoException, wrote |-> FALSE, file |-> file]
    ELSE [ok |-> TRUE, exc |-> NoException, wrote |-> TRUE,
          file |-> IF shell = "cmd" THEN ConfigFile(TRUE, BatchFile(c), TRUE)
                   ELSE Appended(file, get_shell_setup_commands(shell, c))]

\* the test that starts a block in remove_shell_config ("Carapace-bin completion
\* setup" holds "carapace" once lower-cased)
StartsBlock(line) == Contains(line, MARKER) \/ LowerHasCarapace(line)

\* the test that ends a block: a blank line, or a comment without "carapace"
EndsBlock(line) == line = <<>> \/ (line[1] = "#" /\ ~LowerHasCarapace(line))

\* the loop of remove_shell_config: for each line, whether it is appended to
\* filtered_lines, from a given in_carapace_block
RECURSIVE KeepFlags(_, _)
KeepFlags(lines, in_carapace_block) ==
    IF lines = <<>> THEN <<>>
    ELSE IF StartsBlock(Head(lines)) THEN <<FALSE>> \o KeepFlags(Tail(lines), TRUE)
    ELSE IF in_carapace_block /\ ~EndsBlock(Head(lines))
    THEN <<FALSE>> \o KeepFlags(Tail(lines), TRUE)
    ELSE <<TRUE>> \o KeepFlags(Tail(lines), FALSE)

\* the lines whose flag is set
RECURSIVE Pick(_, _)
Pick(lines, flags) ==
    IF lines = <<>> THEN <<>>
    ELSE (IF Head(flags) THEN <<Head(lines)>> ELSE <<>>) \o Pick(Tail(lines), Tail(flags))

\* remove_shell_config(shell) of completion.py
remove_shell_config(file, fault) ==
    IF fault # "none" THEN [ok |-> FALSE, exc |-> fault, wrote |-> FALSE, file |-> file]
    ELSE IF ~file.exists
    THEN [ok |-> TRUE, exc |-> NoException, wrote |-> FALSE, file |-> file]
    ELSE LET flags == KeepFlags(file.lines, FALSE)
             lastKept == file.lines # <<>> /\ flags[Len(flags)]
         IN [ok |-> TRUE, exc |-> NoException, wrote |-> TRUE,
             file |-> ConfigFile(TRUE, Pick(file.lines, flags),
                                 IF lastKept THEN file.eol ELSE TRUE)]

(* commands/completion/command.py: the same two functions returning a result, and
   the spec file operations *)

CompletionResult(success, message, details) ==
    [success |-> success, message |-> message, details |-> details]

\* the message of the except clause that handles a file error
FaultResult(fault, doing) ==
    CompletionResult(FALSE,
        <<IF fault = "PermissionError" THEN "Permission denied while " ELSE "IO error while ">>
            \o doing, <<fault>>)

\* auto_configure_shell(setup) of command.py
Command_auto_configure_shell(file, shell, c, fault) ==
    LET r == auto_configure_shell(file, shell, c, fault)
    IN r @@
       [res |-> IF ~r.ok THEN FaultResult(fault, <<"configuring ", shell>>)
                ELSE IF ~r.wrote
                THEN CompletionResult(TRUE, <<"Configuration already exists">>, <<"config_file">>)
                ELSE CompletionResult(TRUE, <<"Auto-configured ", shell, " completion">>,
                                      <<"config_file">>)]

\* remove_shell_config(setup) of command.py
Command_remove_shell_config(file, fault) ==
    LET r == remove_shell_config(file, fault)
    IN r @@
       [res |-> IF ~r.ok THEN FaultResult(fault, <<"removing shell configuration">>)
                ELSE IF ~r.wrote
                THEN CompletionResult(TRUE, <<"Shell config file not found">>, <<"config_file">>)
                ELSE CompletionResult(TRUE, <<"Removed carapace configuration">>,
                                      <<"config_file">>)]

\* remove_carapace_spec() of command.py, with whether the spec file is left
Command_remove_carapace_spec(spec, fault) ==
    IF ~spec
    THEN [res |-> CompletionResult(TRUE, <<"No existing spec file found">>, <<>>),
          spec |-> FALSE]
    ELSE IF fault = "none"
    THEN [res |-> CompletionResult(TRUE, <<"Removed existing spec file">>, <<"spec_path">>),
          spec |-> FALSE]
    ELSE [res |-> CompletionResult(FALSE,
                    <<IF fault = "PermissionError" THEN "Permission denied while removing spec file"
                      ELSE "OS error while removing spec file">>, <<fault>>),
          spec |-> TRUE]

\* save_carapace_spec(spec_dir) of completion.py: the Path of the copy, or
\* FileNotFoundError when complete.yaml is missing
save_carapace_spec(source_exists) ==
    IF ~source_exists
    THEN [raised |-> TRUE, exc |-> "FileNotFoundError", ret |-> [type |-> "none"]]
    ELSE [raised |-> FALSE, exc |-> NoException, ret |-> [type |-> "Path"]]

\* _handle_spec_operations(config_dir): the pair it returns, or the exception
handle_spec_operations(spec, fault, source_exists) ==
    LET removed == Command_remove_carapace_spec(spec, fault)
        new_spec_result == save_carapace_spec(source_exists)
    IN IF ~removed.res.success
       THEN [raised |-> FALSE, exc |-> NoException, spec |-> removed.spec,
             results |-> <<removed.res, CompletionResult(FALSE, <<>>, <<>>)>>]
       ELSE IF new_spec_result.raised
       THEN [raised |-> TRUE, exc |-> new_spec_result.exc, spec |-> removed.spec,
             results |-> <<>>]
       ELSE IF ~HasAttr(new_spec_result.ret, "success")
       THEN [raised |-> TRUE, exc |-> "AttributeError", spec |-> TRUE, results |-> <<>>]
       ELSE [raised |-> FALSE, exc |-> NoException, spec |-> TRUE,
             results |-> <<removed.res, new_spec_result.ret>>]


(* commands/completion/completion.py: the commands install, refresh and manual *)

\* get_carapace_path() when the executable is neither bundled nor on PATH
NoCarapace == [dir |-> "", path |-> ""]

\* platform.system() = "Windows", the words of os.environ["SHELL"] (<<>> when it
\* is unset) and what get_carapace_path() returns
Environment(windows, SHELL, carapace) ==
    [windows |-> windows, SHELL |-> SHELL, carapace |-> carapace]

Environments ==
    {Environment(FALSE, s, c) :
        s \in {<<>>, <<"/bin/", "bash">>, <<"/bin/", "zsh">>, <<"/usr/bin/", "fish">>,
               <<"/bin/", "tcsh">>},
        c \in Carapaces \cup {NoCarapace}}
    \cup {Environment(TRUE, s, c) :
        s \in {<<>>, <<"powershell">>}, c \in Carapaces \cup {NoCarapace}}

\* the auto-detection of _get_shell_and_validate
DetectShell(env) ==
    IF env.windows
    THEN IF Contains(env.SHELL, "powershell") THEN "powershell" ELSE "cmd"
    ELSE IF Contains(env.SHELL, "zsh") THEN "zsh"
    ELSE IF Contains(env.SHELL, "fish") THEN "fish"
    ELSE "bash"

\* what a command leaves: its exit code, the shell it worked on, that shell's
\* config file, whether the spec file exists, whether the output file was written
CommandOutcome(exit, shell, file, spec, output, message) ==
    [exit |-> exit, shell |-> shell, file |-> file, spec |-> spec, output |-> output,
     message |-> message]

\* _get_shell_and_validate(shell): (shell, carapace_path), or sys.exit(1)
get_shell_and_validate(shell, env) ==
    LET resolved == IF shell = "" THEN DetectShell(env) ELSE shell
    IN IF resolved \notin Shells
       THEN [exit |-> 1, shell |-> resolved, carapace_path |-> NoCarapace,
             message |-> <<"Unsupported shell: ", resolved>>]
       ELSE IF env.carapace = NoCarapace
       THEN [exit |-> 1, shell |-> resolved, carapace_path |-> NoCarapace,
             message |-> <<"Carapace-bin not found.">>]
       ELSE [exit |-> 0, shell |-> resolved, carapace_path |-> env.carapace,
             message |-> <<>>]

\* remove_carapace_spec() of completion.py: whether it succeeded, and whether the
\* spec file is left
remove_carapace_spec(spec, fault) ==
    IF spec /\ fault # "none" THEN [ok |-> FALSE, spec |-> TRUE]
    ELSE [ok |-> TRUE, spec |-> FALSE]

\* completion_install_command(shell, output); file is the config file of the
\* shell that line 362 resolves, which is called without the shell it was given
completion_install_command(shell, env, file, spec, fault, source_exists) ==
    LET v == get_shell_and_validate("", env)
        saved == save_carapace_spec(source_exists)
        configured == auto_configure_shell(file, v.shell, v.carapace_path, fault)
    IN IF v.exit # 0 THEN CommandOutcome(v.exit, v.shell, file, spec, FALSE, v.message)
       ELSE IF file.exists /\ spec /\ AlreadyConfigured(file.lines)
       THEN CommandOutcome(0, v.shell, file, spec, FALSE,
                           <<"Completion already installed for ", v.shell>>)
       ELSE IF saved.raised
       THEN CommandOutcome(1, v.shell, file, spec, FALSE, <<"Error: ", saved.exc>>)
       ELSE CommandOutcome(0, v.shell, configured.file, TRUE, FALSE,
                           <<"Completion installation completed!">>)

\* refresh_carapace_completion(shell)
refresh_carapace_completion(shell, env, file, spec, spec_fault, fault, source_exists) ==
    LET unlinked == remove_carapace_spec(spec, spec_fault)
        removed == remove_shell_config(file, fault)
        saved == save_carapace_spec(source_exists)
        configured == auto_configure_shell(removed.file, shell, env.carapace, fault)
    IN IF ~unlinked.ok
       THEN CommandOutcome(1, shell, file, unlinked.spec, FALSE, <<>>)
       ELSE IF env.carapace = NoCarapace
       THEN CommandOutcome(1, shell, removed.file, unlinked.spec, FALSE,
                           <<"Carapace-bin not found.">>)
       ELSE IF saved.raised
       THEN CommandOutcome(1, shell, removed.file, unlinked.spec, FALSE,
                           <<"Error refreshing completion: ", saved.exc>>)
       ELSE CommandOutcome(0, shell, configured.file, TRUE, FALSE,
                           <<"Completion refresh completed!">>)

\* completion_refresh_command(shell): line 406 validates without the shell too
completion_refresh_command(shell, env, file, spec, spec_fault, fault, source_exists) ==
    LET v == get_shell_and_validate("", env)
    IN IF v.exit # 0 THEN CommandOutcome(v.exit, v.shell, file, spec, FALSE, v.message)
       ELSE refresh_carapace_completion(v.shell, env, file, spec, spec_fault, fault,
                                        source_exists)

\* completion_manual_command(shell, output): prints the setup commands, and
\* writes them to the output file when one is given
completion_manual_command(shell, output, env, file, spec, fault) ==
    LET v == get_shell_and_validate(shell, env)
    IN IF v.exit # 0 THEN CommandOutcome(v.exit, v.shell, file, spec, FALSE, v.message)
       ELSE IF output /\ fault # "none"
       THEN CommandOutcome(1, v.shell, file, spec, FALSE, <<"Error: ", fault>>)
       ELSE CommandOutcome(0, v.shell, file, spec, output,
                           <<"To enable completion for ", v.shell>>)


\* the lines a user may have in the file: an alias, a blank line, a comment, and a
\* completion of the user's own that goes through carapace
UserLines ==
    {<<"alias", "ll=ls">>, <<>>, <<"#", "my", "settings">>,
     <<"source", "<(", "carapace", "chmod", "zsh", ")">>}

UserFiles ==
    {NoFile} \cup
    {ConfigFile(TRUE, lines, eol) :
        lines \in UNION {[1..n -> UserLines] : n \in 0..MaxFileLen}, eol \in BOOLEAN}

\* the record of one call
CompletionCall(op, impl, after, ok, wrote, raised, exc, results) ==
    [op |-> op, impl |-> impl, after |-> after, ok |-> ok, wrote |-> wrote,
     raised |-> raised, exc |-> exc, results |-> results]

\* the shell, its config file now and before the last install, the lines that
\* install wrote, whether the carapace spec file exists, the calls so far, the
\* environment of the commands and the last command with its shell argument, the
\* spec file it found and what it left
CompletionState(shell, file, spec) ==
    [shell |-> shell, file |-> file, orig |-> file, block |-> <<>>, spec |-> spec,
     n |-> 0,
     last |-> CompletionCall("none", "none", "none", TRUE, FALSE, FALSE, NoException, <<>>),
     env |-> Environment(FALSE, <<>>, NoCarapace),
     cmd |-> [name |-> "none", arg |-> "", had |-> FALSE,
              out |-> CommandOutcome(0, "", NoFile, FALSE, FALSE, <<>>)]]

NoCompletion == CompletionState("bash", NoFile, FALSE)

\* the state after an install; block holds the lines it put into the file
AfterInstall(r, impl, c, results) ==
    [comp EXCEPT !.file = r.file, !.orig = comp.file,
                 !.block = IF ~r.wrote THEN <<>>
                           ELSE IF comp.shell = "cmd" THEN BatchFile(c)
                           ELSE <<MarkerLine>> \o get_shell_setup_commands(comp.shell, c),
                 !.n = @ + 1,
                 !.last = CompletionCall("install", impl, comp.last.op, r.ok, r.wrote,
                                         FALSE, NoException, results)]

AfterRemove(r, impl, results) ==
    [comp EXCEPT !.file = r.file, !.n = @ + 1,
                 !.last = CompletionCall("remove", impl, comp.last.op, r.ok, r.wrote,
                                         FALSE, NoException, results)]

\* auto_configure_shell of completion.py
AutoConfigure ==
    /\ comp.n < MaxCalls
    /\ \E c \in Carapaces, fault \in IoFaults :
          comp' = AfterInstall(auto_configure_shell(comp.file, comp.shell, c, fault),
                               "completion.py", c, <<>>)
    /\ UNCHANGED <<rc, chk, container, fs, lastOp, prevOp, setup>>

\* remove_shell_config of completion.py
RemoveConfig ==
    /\ comp.n < MaxCalls
    /\ \E fault \in IoFaults :
          comp' = AfterRemove(remove_shell_config(comp.file, fault), "completion.py", <<>>)
    /\ UNCHANGED <<rc, chk, container, fs, lastOp, prevOp, setup>>

\* auto_configure_shell of command.py
CommandAutoConfigure ==
    /\ comp.n < MaxCalls
    /\ \E c \in Carapaces, fault \in IoFaults :
          LET r == Command_auto_configure_shell(comp.file, comp.shell, c, fault)
          IN comp' = AfterInstall(r, "command.py", c, <<r.res>>)
    /\ UNCHANGED <<rc, chk, container, fs, lastOp, prevOp, setup>>

\* remove_shell_config of command.py
CommandRemoveConfig ==
    /\ comp.n < MaxCalls
    /\ \E fault \in IoFaults :
          LET r == Command_remove_shell_config(comp.file, fault)
          IN comp' = AfterRemove(r, "command.py", <<r.res>>)
    /\ UNCHANGED <<rc, chk, container, fs, lastOp, prevOp, setup>>

\* _handle_spec_operations of command.py
SpecOperations ==
    /\ comp.n < MaxCalls
    /\ \E fault \in IoFaults, source_exists \in BOOLEAN :
          LET r == handle_spec_operations(comp.spec, fault, source_exists)
          IN comp' = [comp EXCEPT !.spec = r.spec, !.n = @ + 1,
                         !.last = CompletionCall("spec", "command.py", comp.last.op,
                                     ~r.raised, FALSE, r.raised, r.exc, r.results)]
    /\ UNCHANGED <<rc, chk, container, fs, lastOp, prevOp, setup>>

\* the shell names given on the command line: none, supported ones, and one that
\* is not supported
ShellArgs == {"", "bash", "zsh", "fish", "tcsh"}

\* the state after a command of the completion sub-app
AfterCommand(name, arg, out) ==
    [comp EXCEPT !.file = out.file, !.orig = comp.file, !.spec = out.spec, !.n = @ + 1,
                 !.cmd = [name |-> name, arg |-> arg, had |-> comp.spec, out |-> out]]

\* foodtruck completion install
Install ==
    /\ comp.n < MaxCalls
    /\ \E shell \in ShellArgs, fault \in IoFaults, source_exists \in BOOLEAN :
          comp' = AfterCommand("install", shell,
                      completion_install_command(shell, comp.env, comp.file, comp.spec,
                                                 fault, source_exists))
    /\ UNCHANGED <<rc, chk, container, fs, lastOp, prevOp, setup>>

\* foodtruck completion refresh
Refresh ==
    /\ comp.n < MaxCalls
    /\ \E shell \in ShellArgs, spec_fault \in IoFaults, fault \in IoFaults,
          source_exists \in BOOLEAN :
          comp' = AfterCommand("refresh", shell,
                      completion_refresh_command(shell, comp.env, comp.file, comp.spec,
                                                 spec_fault, fault, source_exists))
    /\ UNCHANGED <<rc, chk, container, fs, lastOp, prevOp, setup>>

\* foodtruck completion manual
Manual ==
    /\ comp.n < MaxCalls
    /\ \E shell \in ShellArgs, output \in BOOLEAN, fault \in IoFaults :
          comp' = AfterCommand("manual", shell,
                      completion_manual_command(shell, output, comp.env, comp.file,
                                                comp.spec, fault))
    /\ UNCHANGED <<rc, chk, container, fs, lastOp, prevOp, setup>>

-----------------------------------------------------------------------------
(* Specifications *)

Init ==
    /\ rc = NoCall
    /\ chk = NoCheck
    /\ container = FALSE
    /\ fs \in FileStates
    /\ lastOp = NoOp
    /\ prevOp = Summary(NoOp)
    /\ setup = NoSetup
    /\ comp = NoCompletion

NextRun == CallRunCommand

\* the process runner alone
SpecRun == Init /\ [][NextRun]_vars

Next ==
    \/ Start \/ Stop \/ Restart \/ Logs \/ Exec \/ Migrate \/ Status
    \/ ApiSetup \/ ApiInstall
    \/ ContainerChanges

\* the service lifecycle
Spec == Init /\ [][Next]_vars

NextCheck == RunLegacyCheck \/ RunPackageCheck \/ ApplyFromResults

\* the dependency check
SpecCheck == Init /\ [][NextCheck]_vars

\* the setup starts from any state of the target directory
InitSetup ==
    /\ rc = NoCall
    /\ chk = NoCheck
    /\ container = FALSE
    /\ fs = NoFiles
    /\ lastOp = NoOp
    /\ prevOp = Summary(NoOp)
    /\ \E t \in TargetStates : setup = SetupState(t, NoSetupRun, RunSummary(NoSetupRun))
    /\ comp = NoCompletion

\* the completion starts from any config file of any shell
InitCompletion ==
    /\ rc = NoCall
    /\ chk = NoCheck
    /\ container = FALSE
    /\ fs = NoFiles
    /\ lastOp = NoOp
    /\ prevOp = Summary(NoOp)
    /\ setup = NoSetup
    /\ \E shell \in Shells, file \in UserFiles, spec \in BOOLEAN :
          comp = CompletionState(shell, file, spec)

NextCompletion ==
    \/ AutoConfigure \/ RemoveConfig
    \/ CommandAutoConfigure \/ CommandRemoveConfig
    \/ SpecOperations

\* the shell completion
SpecCompletion == InitCompletion /\ [][NextCompletion]_vars

\* the config file of the detected shell before the first command: missing, or
\* holding a line of the user's, with or without a final newline
HomeFiles ==
    {NoFile} \cup {ConfigFile(TRUE, <<<<"alias", "ll=ls">>>>, eol) : eol \in BOOLEAN}

InitCommands ==
    /\ rc = NoCall
    /\ chk = NoCheck
    /\ container = FALSE
    /\ fs = NoFiles
    /\ lastOp = NoOp
    /\ prevOp = Summary(NoOp)
    /\ setup = NoSetup
    /\ \E env \in Environments, file \in HomeFiles, spec \in BOOLEAN :
          comp = [CompletionState(DetectShell(env), file, spec) EXCEPT !.env = env]

NextCommands == Install \/ Refresh \/ Manual

\* the commands of the completion sub-app
SpecCommands == InitCommands /\ [][NextCommands]_vars

NextSetup == RunSetup \/ RunLegacySetup

\* the project setup
SpecSetup == InitSetup /\ [][NextSetup]_vars

-----------------------------------------------------------------------------
(* CLAIMS_SECTION *)

\* the text begins with the given chunks
StartsWith(text, head) ==
    /\ Len(head) <= Len(text)
    /\ SubSeq(text, 1, Len(head)) = head

\* C1 (as claimed): of two calls of start in sequence, where the first brought the
\* container up (its "up" exited 0 and the container was running afterwards) and the
\* container stayed up, the second returns success with an "already running" message
\* and "up" is invoked once over the two calls.
C1_StartTwiceInvokesUpOnce ==
    (/\ prevOp.op = "start" /\ prevOp.upExit0 /\ prevOp.after
     /\ lastOp.op = "start" /\ lastOp.before) =>
        /\ ~lastOp.raised
        /\ lastOp.success
        /\ StartsWith(lastOp.message, <<"API service already running on port ">>)
        /\ prevOp.ups + lastOp.ups = 1

\* C2: stop called while the container is not running returns success and does not
\* invoke "docker compose down".
C2_StopWhenNotRunning ==
    (lastOp.op = "stop" /\ ~lastOp.before) =>
        /\ ~lastOp.raised
        /\ lastOp.success
        /\ lastOp.downs = 0
        /\ lastOp.after = lastOp.before

\* C2 witness: stop was called on a container that is down and reported success.
C2_Witness ==
    /\ lastOp.op = "stop"
    /\ ~lastOp.before
    /\ lastOp.success
    /\ lastOp.downs = 0

\* C3 (as claimed): no lifecycle operation lets an exception reach its caller; a step
\* that fails unexpectedly gives a failure outcome with the exception text as detail.
C3_NoOperationRaises ==
    lastOp.op # "none" =>
        /\ ~lastOp.raised
        /\ ~lastOp.success => lastOp.message # <<>>

\* the process did not exit with code 0 within the timeout
FailureMode(o) == o.kind # "exit" \/ o.code # 0

\* t is s without its leading and trailing whitespace
IsTrimOf(t, s) ==
    /\ t = <<>> \/ (t[1] \notin Whitespace /\ t[Len(t)] \notin Whitespace)
    /\ \E i \in 0..Len(s) :
          /\ i + Len(t) <= Len(s)
          /\ SubSeq(s, i + 1, i + Len(t)) = t
          /\ \A k \in (1..i) \cup ((i + Len(t) + 1)..Len(s)) : s[k] \in Whitespace

\* the text ends with the given tail
EndsWith(text, tail) ==
    /\ Len(tail) <= Len(text)
    /\ SubSeq(text, Len(text) - Len(tail) + 1, Len(text)) = tail

\* C4: whatever the spawned command does (non-zero exit, timeout, executable not
\* found, permission denied, any other exception), run_command raises nothing and
\* returns False.
C4_RunCommandNeverRaises ==
    rc.called =>
        /\ ~rc.res.raised
        /\ FailureMode(rc.o) => rc.res.ret = PyBool(FALSE)

\* C4 witness: a call whose process failed with an exception no specific clause names.
C4_Witness ==
    /\ rc.called
    /\ rc.cmd # <<>>
    /\ rc.o.kind = "other"
    /\ rc.res.ret = PyBool(FALSE)

\* C5: a call with an empty argument list returns False and subprocess.run is not
\* invoked.
C5_EmptyCommandFails ==
    (rc.called /\ rc.cmd = <<>>) =>
        /\ rc.res.ret = PyBool(FALSE)
        /\ ~rc.res.invoked
        /\ ~rc.res.raised

\* C5 witness: an empty command, called where a process would have exited 0.
C5_Witness ==
    /\ rc.called
    /\ rc.cmd = <<>>
    /\ rc.o.kind = "exit"
    /\ rc.o.code = 0
    /\ ~rc.res.invoked

\* C6 (as claimed): a command that exceeds the timeout returns False, prints a
\* message that contains the timeout value in seconds, and prints no success message.
C6_TimeoutMessageHasSeconds ==
    (rc.called /\ rc.cmd # <<>> /\ rc.o.kind = "timeout") =>
        /\ rc.res.ret = PyBool(FALSE)
        /\ \E i \in 1..Len(rc.res.printed) :
              Contains(rc.res.printed[i].text, ToString(TIMEOUT_SECONDS))
        /\ \A i \in 1..Len(rc.res.printed) : rc.res.printed[i].level # "success"

\* C7: run_command returns True exactly when the process exits with code 0 within
\* the timeout; on a non-zero exit it returns False and the error message ends with
\* the trimmed stderr or, when stderr is empty, holds the exit code.
C7_SuccessIffExitZero ==
    (rc.called /\ rc.cmd # <<>>) =>
        /\ rc.res.ret.value <=> (rc.o.kind = "exit" /\ rc.o.code = 0)
        /\ (rc.o.kind = "exit" /\ rc.o.code # 0) =>
              /\ Len(rc.res.printed) = 1
              /\ rc.res.printed[1].level = "error"
              /\ IF rc.o.stderr = <<>>
                 THEN Contains(rc.res.printed[1].text, ToString(rc.o.code))
                 ELSE \E t \in Strings :
                        /\ IsTrimOf(t, rc.o.stderr)
                        /\ EndsWith(rc.res.printed[1].text, <<"': ">> \o t)

\* C7 witness: a non-zero exit whose stderr has whitespace to trim around its text.
C7_Witness ==
    /\ rc.called
    /\ rc.cmd # <<>>
    /\ rc.o.kind = "exit"
    /\ rc.o.code = MaxExitCode
    /\ rc.o.stderr # <<>>
    /\ Strip(rc.o.stderr) # rc.o.stderr
    /\ Strip(rc.o.stderr) # <<>>
    /\ ~rc.res.ret.value

\* the names the command printed as failing
ReportedFailing ==
    {chk.log[j].name : j \in {k \in 1..Len(chk.log) :
                                chk.log[k].ev = "status" /\ chk.log[k].level = "error"}}

\* the indices of the probes whose status is not ok
FailingProbes == {i \in 1..Len(chk.results) : ~chk.results[i].status.is_ok}

\* C8: a report's all_ok is the conjunction of its five is_ok flags; when exactly one
\* probe is not ok, all_ok is false and the check command prints that probe's name,
\* and no other, as failing.
C8_AllOkIsConjunction ==
    (chk.impl # "none" /\ ~chk.raised) =>
        /\ Len(chk.results) = NumProbes
        /\ chk.all_ok <=> \A i \in 1..NumProbes : chk.results[i].status.is_ok
        /\ \A k \in 1..NumProbes :
              FailingProbes = {k} =>
                  /\ ~chk.all_ok
                  /\ chk.impl # "from_results" => ReportedFailing = {ProbeOrder[k]}

\* C8 witness: a run of the check command in which Git alone fails.
C8_Witness ==
    /\ chk.impl = "legacy"
    /\ FailingProbes = {3}
    /\ ~chk.all_ok
    /\ ReportedFailing = {"Git"}

\* C9 (as claimed): the dependency check runs the five probes in declaration order,
\* whatever the earlier ones found, and reports five statuses in that order.
C9_AllProbesRunInOrder ==
    chk.impl \in {"legacy", "package"} =>
        /\ chk.ran = ProbeOrder
        /\ Len(chk.results) = NumProbes
        /\ \A i \in 1..Len(chk.results) : chk.results[i].name = ProbeOrder[i]

\* C10 (as claimed): the check command exits with 1 exactly when some probe reports
\* is_ok false, and the five statuses are printed before the command ends.
C10_ExitOneIffProbeFails ==
    chk.impl \in {"legacy", "package"} =>
        /\ chk.exit = 1 <=> FailingProbes # {}
        /\ chk.exit \in {0, 1}
        /\ Len(chk.log) = NumProbes + 1
        /\ \A i \in 1..NumProbes :
              chk.log[i].ev = "status" /\ chk.log[i].name = ProbeOrder[i]
        /\ chk.log[Len(chk.log)] = EndEvent(chk.exit)

\* the text holds the given chunks, in sequence
HasSub(text, sub) ==
    \E i \in 0..(Len(text) - Len(sub)) : SubSeq(text, i + 1, i + Len(sub)) = sub

\* C11 (as claimed): when the interpreter's "--version" exits 0, the version probe
\* reports ok with a message holding the version if stdout holds "Python 3.13", and
\* reports not ok with a message naming the version found and the required
\* "Python 3.13" otherwise.
C11_VersionProbeAcceptance ==
    (/\ chk.impl \in {"legacy", "package"}
     /\ chk.py.kind = "exit" /\ chk.py.code = 0) =>
        /\ Len(chk.results) >= 1
        /\ chk.results[1].name = "Python 3.13"
        /\ LET status == chk.results[1].status
               version == Strip(chk.py.stdout)
           IN /\ status.is_ok <=> Contains(chk.py.stdout, "Python 3.13")
              /\ HasSub(status.message, version)
              /\ ~status.is_ok => Contains(status.message, "Python 3.13")

\* the skip flag of a project, its result, and the commands a run invoked for it
SkipFlag(opts, name) == IF name = API_PROJECT THEN opts.skip_api ELSE opts.skip_website

ResultOf(run, name) == IF name = API_PROJECT THEN run.api ELSE run.web

InvokedFor(run, name) == {i \in 1..Len(run.cmds) : run.cmds[i].project = name}

\* C12: a project marked skip yields success whatever the directory holds and
\* whatever its clone or install would have done, and no command is invoked for it.
C12_SkipInvokesNothing ==
    setup.last.impl = "package" =>
        \A name \in ProjectNames :
            SkipFlag(setup.last.opts, name) =>
                /\ ResultOf(setup.last, name).success
                /\ InvokedFor(setup.last, name) = {}

\* C12 witness: the API project is skipped where its directory is missing and both
\* its clone and "uv --version" would have failed.
C12_Witness ==
    /\ setup.last.impl = "package"
    /\ setup.last.opts.skip_api
    /\ ~setup.last.before.api
    /\ setup.last.ch.clone[API_PROJECT].code = 1
    /\ ~setup.last.ch.uv
    /\ setup.last.api.success
    /\ InvokedFor(setup.last, API_PROJECT) = {}

\* C13 (as claimed): when the clone of a project fails, no install command is
\* invoked for that project, its result has success false, and the result carries
\* the clone's error (the stderr of the clone) as its detail.
C13_CloneFailureShortCircuits ==
    setup.last.impl = "package" =>
        \A name \in ProjectNames :
            (/\ \E i \in InvokedFor(setup.last, name) : setup.last.cmds[i].cmd = "git clone"
             /\ FailureMode(setup.last.ch.clone[name])) =>
                /\ \A i \in InvokedFor(setup.last, name) : setup.last.cmds[i].cmd = "git clone"
                /\ ~ResultOf(setup.last, name).success
                /\ Truthy(setup.last.ch.clone[name].stderr) =>
                      HasSub(ResultOf(setup.last, name).message,
                             Strip(setup.last.ch.clone[name].stderr))

\* C14: a project that is not skipped and whose directory exists yields success with
\* neither clone nor install invoked; so a run that follows a successful run with the
\* same options succeeds and invokes nothing.
C14_ExistingProjectUntouched ==
    setup.last.impl = "package" =>
        /\ \A name \in ProjectNames :
              (~SkipFlag(setup.last.opts, name) /\ HasDir(setup.last.before, name)) =>
                  /\ ResultOf(setup.last, name).success
                  /\ InvokedFor(setup.last, name) = {}
        /\ (/\ setup.prev.impl = "package" /\ setup.prev.exit = 0
            /\ setup.prev.opts = setup.last.opts) =>
                  /\ setup.last.exit = 0
                  /\ setup.last.cmds = <<>>

\* C14 witness: a run that cloned and installed is followed by a run with the same
\* options, in which both clones would fail, and the second run succeeds.
C14_Witness ==
    /\ setup.prev.impl = "package" /\ setup.prev.exit = 0 /\ setup.prev.invoked = 4
    /\ setup.last.impl = "package" /\ setup.last.opts = setup.prev.opts
    /\ \A name \in ProjectNames : setup.last.ch.clone[name].code = 1
    /\ setup.last.exit = 0
    /\ setup.last.cmds = <<>>

\* C15 (as claimed): setup creates the target directory when it is missing, and when
\* the directory holds entries it refuses with an error before any clone or install.
C15_RefusesNonEmptyTarget ==
    setup.last.impl # "none" =>
        /\ setup.last.after.exists
        /\ HasEntries(setup.last.before) =>
              /\ setup.last.refused
              /\ setup.last.cmds = <<>>
              /\ setup.last.exit = 1

\* the api commands that end with sys.exit(1) on a failing outcome
ExitingCommands ==
    {"setup", "install", "start", "stop", "restart", "logs", "exec", "migrate"}

\* C16 (as claimed): a setup command and an api service command exit with code 1
\* exactly when the operation returns a failing outcome, and with no non-zero code
\* when the outcome is success.
C16_ExitOneIffFailingOutcome ==
    /\ lastOp.op \in ExitingCommands =>
          /\ lastOp.exit = 1 <=> (~lastOp.raised /\ ~lastOp.success)
          /\ (~lastOp.raised /\ lastOp.success) => lastOp.exit = 0
    /\ setup.last.impl # "none" =>
          /\ setup.last.exit = 1 <=> ~(setup.last.api.success /\ setup.last.web.success)
          /\ (setup.last.api.success /\ setup.last.web.success) => setup.last.exit = 0

\* C19 (as claimed): stop called while the container is running reports success only
\* if "docker compose down" exited 0 and the container is not running afterwards; if
\* the container is still running after a "down" that exited 0, stop returns failure
\* with the detail "Container is still running after stop command".
C19_StopVerifiesAfterDown ==
    (lastOp.op = "stop" /\ lastOp.before) =>
        /\ ~lastOp.raised
        /\ lastOp.success => (lastOp.downExit0 /\ ~lastOp.after)
        /\ (lastOp.downExit0 /\ lastOp.after) =>
              /\ ~lastOp.success
              /\ lastOp.details = <<"Container is still running after stop command">>

\* C20 (as claimed): when start is called while the container is not running and
\* "docker compose up" is invoked, start reports success exactly when the status
\* queried after the grace period says running: "up" exited 0 and the container runs.
C20_StartSuccessIsRequeriedStatus ==
    (lastOp.op = "start" /\ ~lastOp.before /\ lastOp.ups >= 1) =>
        /\ ~lastOp.raised
        /\ lastOp.success <=> (lastOp.upExit0 /\ lastOp.after)

\* the lines of a file that neither name carapace nor hold the marker
Unrelated(lines) == Pick(lines, [i \in 1..Len(lines) |-> ~StartsBlock(lines[i])])

\* the lines of a, in their order, are among the lines of b
RECURSIVE IsSubsequence(_, _)
IsSubsequence(a, b) ==
    IF a = <<>> THEN TRUE
    ELSE IF b = <<>> THEN FALSE
    ELSE IF Head(a) = Head(b) THEN IsSubsequence(Tail(a), Tail(b))
    ELSE IsSubsequence(a, Tail(b))

ClaimedShells == {"bash", "zsh", "fish", "powershell"}

\* C17 (as claimed): after an install that wrote its block and the removal that
\* follows it, the file holds no marker comment and no line of the installed block
\* (blank lines and comments aside), and every unrelated line the file had before
\* the install is still there, verbatim and in order; for bash, zsh, fish and
\* powershell.
C17_InstallRemoveRoundTrip ==
    (/\ comp.last.op = "remove" /\ comp.last.ok /\ comp.last.after = "install"
     /\ comp.block # <<>>
     /\ comp.shell \in ClaimedShells) =>
        /\ \A i \in 1..Len(comp.file.lines) : ~Contains(comp.file.lines[i], MARKER)
        /\ \A i \in 1..Len(comp.file.lines), j \in 1..Len(comp.block) :
              comp.file.lines[i] = comp.block[j] =>
                  (comp.block[j] = <<>> \/ comp.block[j][1] = "#")
        /\ IsSubsequence(Unrelated(comp.orig.lines), comp.file.lines)

\* C18 (as claimed): every failure outcome an operation of setup, of the service
\* lifecycle or of the completion returns carries a non-empty message.
C18_FailuresCarryMessage ==
    /\ \A i \in 1..Len(comp.last.results) :
          ~comp.last.results[i].success => comp.last.results[i].message # <<>>
    /\ (lastOp.op # "none" /\ ~lastOp.raised /\ ~lastOp.success) => lastOp.message # <<>>
    /\ setup.last.impl = "package" =>
          \A name \in ProjectNames :
              ~ResultOf(setup.last, name).success =>
                  ResultOf(setup.last, name).message # <<>>

Range(seq) == {seq[i] : i \in 1..Len(seq)}

\* the steps of the log that are among the given ones, in their order
Only(log, steps) == SelectSeq(log, LAMBDA e : e \in steps)

StopFailures == {<<"Failed to stop API service">>, <<"Unexpected error stopping API service">>}

\* C21 (as claimed): restart stops first and starts only if the stop succeeded: after
\* a failed stop no step of start is taken, 'up' is not invoked and the stop's
\* failure is returned; after a stop that succeeded and a start that failed, the
\* start's failure is returned as a result; restart succeeds only when both did.
C21_RestartStopsThenStarts ==
    lastOp.op = "restart" =>
        /\ ~lastOp.raised
        /\ Only(lastOp.log, {"stop ok", "stop failed"}) # <<>>
        /\ "stop failed" \in Range(lastOp.log) =>
              /\ lastOp.ups = 0
              /\ Only(lastOp.log, {"project", "compose", "env", "up"}) = <<>>
              /\ ~lastOp.success /\ lastOp.message \in StopFailures
        /\ "start failed" \in Range(lastOp.log) => (~lastOp.success /\ lastOp.message # <<>>)
        /\ lastOp.success =>
              Only(lastOp.log, {"stop ok", "stop failed", "start ok", "start failed",
                                "start raised"}) = <<"stop ok", "start ok">>

InService == {"logs", "exec", "migrate"}

\* C22: logs, exec and migrate on a service that is not running return a failure,
\* and the engine's logs or exec command is not invoked.
C22_NotRunningNeverInvokes ==
    (lastOp.op \in InService /\ ~lastOp.before) =>
        /\ ~lastOp.raised /\ ~lastOp.success
        /\ lastOp.message = <<"API service is not running">>
        /\ lastOp.log = <<>>

\* C22: exec was called while the container was not running
C22_Witness ==
    /\ lastOp.op = "exec" /\ ~lastOp.before /\ ~lastOp.success
    /\ prevOp.op = "stop"

\* the message of the failure each prerequisite step of start returns
StepFailure(step) ==
    CASE step = "project" -> <<"Failed to setup API project">>
      [] step = "compose" -> <<"Docker Compose file not found">>
      [] step = "env" -> <<"Failed to create default .env file">>
      [] OTHER -> <<>>

StartOrder == <<"project", "compose", "env", "up">>

\* C23 (as claimed): start on a service that is not running takes its steps in the
\* order project-directory check, compose-file check, env-file creation, 'up'; it
\* returns a result; when 'up' was not reached, the result is the failure of the last
\* step taken, and nothing was run after it.
C23_StartShortCircuits ==
    (lastOp.op = "start" /\ ~lastOp.before) =>
        LET steps == Only(lastOp.log, Range(StartOrder))
        IN /\ ~lastOp.raised
           /\ steps = SubSeq(StartOrder, 1, Len(steps))
           /\ lastOp.ups = 0 =>
                 /\ steps # <<>>
                 /\ ~lastOp.success
                 /\ lastOp.message = StepFailure(steps[Len(steps)])
                 /\ lastOp.log[Len(lastOp.log)] \in {steps[Len(steps)], "setup"}

\* C24: no step changes a .env that exists, nor a .env.example that exists; a .env
\* that appears holds the text of .env.example, which holds the placeholder text
\* when it did not exist before.
C24_EnvFileOnlyCreated ==
    [][/\ fs.env => (fs'.env /\ fs'.envText = fs.envText)
       /\ fs.example => (fs'.example /\ fs'.exampleText = fs.exampleText)
       /\ (~fs.env /\ fs'.env) => (fs'.example /\ fs'.envText = fs'.exampleText)
       /\ (~fs.example /\ fs'.example) => fs'.exampleText = PLACEHOLDER]_vars

\* C24: start reached 'up' after it copied the user's .env.example to .env
C24_Witness ==
    /\ lastOp.op = "start" /\ lastOp.ups = 1
    /\ "env" \in Range(lastOp.log)
    /\ fs.env /\ fs.envText = UserExample /\ fs.exampleText = UserExample

\* C27 (as claimed): an operation acts on the state the container is in when it is
\* called, whatever happened before: a start that finds the container running does
\* not bring it up (an 'up' that exits 0 shows the engine was answering), a stop
\* that finds no container returns 'not running' without 'down', and a start that
\* finds none goes through its steps.
C27_ActsOnCurrentStatus ==
    /\ (lastOp.op = "start" /\ lastOp.before) => ~lastOp.upExit0
    /\ (lastOp.op = "stop" /\ ~lastOp.before) =>
          (lastOp.downs = 0 /\ lastOp.message = <<"API service is not running">>)
    /\ (lastOp.op = "start" /\ ~lastOp.before /\ ~lastOp.raised) =>
          Only(lastOp.log, {"project"}) # <<>>

\* the commands a run invoked for a project, in order
CommandsFor(run, name) ==
    [i \in 1..Len(SelectSeq(run.cmds, LAMBDA c : c.project = name)) |->
        SelectSeq(run.cmds, LAMBDA c : c.project = name)[i].cmd]

\* a run for the API project alone that cloned it and failed in the install
InstallFailedBefore ==
    /\ setup.prev.impl = "package" /\ setup.prev.exit = 1
    /\ ~setup.prev.opts.skip_api /\ setup.prev.opts.skip_website
    /\ setup.prev.invoked \in {2, 3}

\* C25: when the clone of the API project succeeded and "uv --version" or "uv sync"
\* failed, the project's result is a failure and its directory is still there; the
\* run that follows finds the directory, reports success for the project and invokes
\* nothing for it.
C25_InstallFailureLeavesClone ==
    setup.last.impl = "package" =>
        /\ (/\ Len(CommandsFor(setup.last, API_PROJECT)) >= 2
            /\ ~(setup.last.ch.uv /\ setup.last.ch.sync)) =>
                /\ CommandsFor(setup.last, API_PROJECT)[1] = "git clone"
                /\ ~setup.last.api.success
                /\ setup.last.api.message # <<>>
                /\ setup.last.exit = 1
                /\ HasDir(setup.last.after, API_PROJECT)
                /\ HasDir(setup.t, API_PROJECT)
        /\ (InstallFailedBefore /\ ~setup.last.opts.skip_api) =>
                /\ HasDir(setup.last.before, API_PROJECT)
                /\ setup.last.api.success
                /\ InvokedFor(setup.last, API_PROJECT) = {}

\* C25 witness: "uv sync" failed after the clone, and the next run for the API
\* project succeeds without a command
C25_Witness ==
    /\ InstallFailedBefore /\ setup.prev.invoked = 3
    /\ setup.last.impl = "package"
    /\ ~setup.last.opts.skip_api /\ setup.last.opts.skip_website
    /\ setup.last.exit = 0
    /\ setup.last.cmds = <<>>

\* C26: the API project is set up before the website project, the website project's
\* clone is attempted whatever became of the API project, and the run is reported
\* successful exactly when both results are successes.
C26_ProjectsIndependent ==
    setup.last.impl = "package" =>
        /\ \A i, j \in 1..Len(setup.last.cmds) :
              (setup.last.cmds[i].project = API_PROJECT
               /\ setup.last.cmds[j].project = WEBSITE_PROJECT) => i < j
        /\ (~setup.last.opts.skip_website /\ ~HasDir(setup.last.before, WEBSITE_PROJECT)) =>
              /\ CommandsFor(setup.last, WEBSITE_PROJECT) = <<"git clone">>
              /\ setup.last.web.success <=> ~FailureMode(setup.last.ch.clone[WEBSITE_PROJECT])
        /\ (setup.last.exit = 0 /\ setup.last.errors = <<>>) <=>
              (setup.last.api.success /\ setup.last.web.success)

\* C26 witness: the clone of the API project failed, the website project was cloned
\* all the same, and the run is reported failed
C26_Witness ==
    /\ setup.last.impl = "package"
    /\ CommandsFor(setup.last, API_PROJECT) = <<"git clone">>
    /\ ~setup.last.api.success
    /\ CommandsFor(setup.last, WEBSITE_PROJECT) = <<"git clone">>
    /\ setup.last.web.success
    /\ setup.last.exit = 1


\* the marker comments in the lines of a config file
MarkerCount(lines) == Cardinality({i \in 1..Len(lines) : lines[i] = MarkerLine})

\* the last command was given a shell name that is not supported, or ran when no
\* carapace executable can be found
InvalidCommand ==
    /\ comp.cmd.name \in {"install", "refresh", "manual"}
    /\ comp.cmd.arg \notin Shells \cup {""} \/ comp.env.carapace = NoCarapace

\* C28: a completion command (install, refresh, manual) given an unsupported shell
\* name, or run when no carapace binary can be found, exits with code 1 and has
\* created, modified or removed neither the shell config file nor the spec file
C28_InvalidExitsBeforeFiles ==
    InvalidCommand =>
        /\ comp.cmd.out.exit = 1
        /\ comp.file = comp.orig
        /\ comp.spec = comp.cmd.had
        /\ ~comp.cmd.out.output

\* C29: after any number of install runs the config file holds the marker comment
\* at most once, and exactly once when an install has written the file of a shell
\* other than cmd, wherever the carapace executable is
C29_InstallAppendsOnce ==
    comp.cmd.name = "install" =>
        /\ MarkerCount(comp.file.lines) <= 1
        /\ (comp.file # comp.orig /\ comp.shell # "cmd") =>
               MarkerCount(comp.file.lines) = 1

\* C30: when install or refresh is given a supported shell and carapace is found,
\* the shell whose config file is inspected and modified is the given one, so the
\* file of the detected shell is left alone when another shell is given
C30_GivenShellIsUsed ==
    (/\ comp.cmd.name \in {"install", "refresh"}
     /\ comp.cmd.arg \in Shells
     /\ comp.env.carapace # NoCarapace) =>
        /\ comp.cmd.out.shell = comp.cmd.arg
        /\ comp.cmd.arg # comp.shell => comp.file = comp.orig

====
